---- MODULE Spec2Model ----
(***************************************************************************)
(* A model of the solitaire engine: the card and pile model (card.py,      *)
(* board.py), the nine move variants (move.py), legal-move enumeration and *)
(* move execution on the Board.                                            *)
(*                                                                         *)
(* Python lists are modelled as sequences whose LAST element is the top of *)
(* the pile (list.append / list.pop).  Pile indices inside moves are the   *)
(* 0-based indices of the source; pile number i of the source is element   *)
(* i + 1 of the modelled sequence.                                         *)
(***************************************************************************)
EXTENDS Integers, Sequences, FiniteSets, TLC

VARIABLES
    board,      \* the Board object: stock, waste, foundations, tableau_piles,
                \* move_count, state_history
    last_move,  \* history: the move most recently executed on the board
    raised,     \* TRUE once an execute() has raised (pop from an empty list,
                \* index out of range)
    probe,      \* the pile and card handed to a can_add_card predicate
    game,       \* the call of play_game on the board: where it stands, its
                \* player, and what it returned
    twin,       \* a second Board object: dealt from another shuffle, or the
                \* board as it was when prepared
    prepared_by \* the call that last prepared the board: Board(), setup() or
                \* setup_random_scenario(number_of_cards)

vars == <<board, last_move, raised, probe, game, twin, prepared_by>>

-----------------------------------------------------------------------------
(* Bounds of the model *)

\* moves executed on one board before the model stops exploring
MaxMoves == 6

\* moves executed on a pair of boards before the model stops exploring
MaxTwinMoves == 3

\* moves executed on a board before its fingerprint is compared with the
\* fingerprints of its variations
MaxPrintMoves == 2
\* the shuffles considered are the permutations i -> (a*i + b) mod 52 with
\* a in Multipliers and b in 0..MaxOffset
MaxOffset == 2
\* turns of a game on which every selection of the user is explored
MaxUserMoves == 4
\* longest pile content handed directly to a can_add_card predicate
MaxPileLen == 2

\* draws and resets executed on a prepared board: the 24 cards of the
\* stock of setup() drawn, and the reset after them
MaxStockMoves == 25

\* moves executed on each of two boards of one game
MaxPairMoves == 2

\* moves executed on a board before and after it is prepared a second time
MaxRedealMoves == 2

-----------------------------------------------------------------------------
(* card.py *)

Suit == <<"HEARTS", "DIAMONDS", "CLUBS", "SPADES">>

color(suit) == IF suit \in {"HEARTS", "DIAMONDS"} THEN "red" ELSE "black"

ACE == 1
KING == 13
Rank == ACE..KING

Card(rank, suit) == [rank |-> rank, suit |-> suit]

\* Python's None where a card is expected (Pile.top_card of an empty pile)
None == [rank |-> 0, suit |-> "None"]

\* [Card(rank, suit) for suit in Suit for rank in Rank]
NewDeck ==
    [i \in 1..(Len(Suit) * KING) |->
        Card(((i - 1) % KING) + 1, Suit[((i - 1) \div KING) + 1])]

AllCards == {NewDeck[i] : i \in 1..Len(NewDeck)}

-----------------------------------------------------------------------------
(* board.py: piles *)

\* Pile.top_card
top_card(cards) == IF Len(cards) > 0 THEN cards[Len(cards)] ELSE None

\* Pile.add_card
add_card(cards, card) == Append(cards, card)

\* Pile.pop_card: the list that is left (the card returned is top_card);
\* list.pop() of an empty list raises IndexError, see Raises
pop_card(cards) == SubSeq(cards, 1, Len(cards) - 1)

\* Stock.can_add_card
Stock_can_add_card(cards, card) == FALSE

\* Waste.can_add_card
Waste_can_add_card(cards, card) == TRUE

\* Foundation(suit)
Foundation(suit) == [suit |-> suit, cards |-> <<>>]

\* a faulty Foundation.can_add_card: the suit is not compared
Foundation_can_add_card_any_suit(foundation, card) ==
    LET top == top_card(foundation.cards) IN
    IF top = None
    THEN card.rank = ACE
    ELSE card.rank = top.rank + 1

\* a faulty Foundation.can_add_card: any higher rank of the suit is accepted
Foundation_can_add_card_any_higher(foundation, card) ==
    IF card.suit # foundation.suit
    THEN FALSE
    ELSE LET top == top_card(foundation.cards) IN
         IF top = None
         THEN card.rank = ACE
         ELSE card.rank > top.rank

\* Foundation.can_add_card
Foundation_can_add_card(foundation, card) ==
    IF card.suit # foundation.suit
    THEN FALSE
    ELSE LET top == top_card(foundation.cards) IN
         IF top = None
         THEN card.rank = ACE
         ELSE card.rank = top.rank + 1

\* Tableau(face_down_cards, face_up_cards)
Tableau(face_down_cards, face_up_cards) ==
    [face_down_cards |-> face_down_cards, cards |-> face_up_cards]

\* Tableau.face_down_count
face_down_count(tableau) == Len(tableau.face_down_cards)

\* a faulty Tableau.can_add_card: the colors are not compared
Tableau_can_add_card_any_color(tableau, card) ==
    LET top == top_card(tableau.cards) IN
    IF top = None
    THEN card.rank = KING
    ELSE card.rank = top.rank - 1

\* Tableau.can_add_card
Tableau_can_add_card(tableau, card) ==
    LET top == top_card(tableau.cards) IN
    IF top = None
    THEN card.rank = KING
    ELSE color(card.suit) # color(top.suit) /\ card.rank = top.rank - 1

\* Tableau.pop_stack: the slice cards[-num_cards:] that is returned.
\* cards[-0:] is the whole list, and so is cards[-n:] for n >= len(cards).
pop_stack_stack(cards, num_cards) ==
    IF num_cards = 0 \/ num_cards >= Len(cards)
    THEN cards
    ELSE SubSeq(cards, Len(cards) - num_cards + 1, Len(cards))

\* Tableau.pop_stack: the slice cards[:-num_cards] that is kept.
\* cards[:-0] is empty, and so is cards[:-n] for n >= len(cards).
pop_stack_rest(cards, num_cards) ==
    IF num_cards = 0 \/ num_cards >= Len(cards)
    THEN <<>>
    ELSE SubSeq(cards, 1, Len(cards) - num_cards)

\* a faulty Tableau.flip_top_card: no card is flipped
flip_top_card_never(tableau) == tableau

\* a faulty Tableau.flip_top_card: the first hidden card is flipped
flip_top_card_first(tableau) ==
    IF Len(tableau.cards) = 0 /\ Len(tableau.face_down_cards) > 0
    THEN Tableau(Tail(tableau.face_down_cards),
                 add_card(tableau.cards, Head(tableau.face_down_cards)))
    ELSE tableau

\* Tableau.flip_top_card
flip_top_card(tableau) ==
    IF Len(tableau.cards) = 0 /\ Len(tableau.face_down_cards) > 0
    THEN Tableau(pop_card(tableau.face_down_cards),
                 add_card(tableau.cards, top_card(tableau.face_down_cards)))
    ELSE tableau

-----------------------------------------------------------------------------
(* board.py: Board *)

NumTableaus == 7

\* Board.foundation_suits = list(Suit)
foundation_suits == Suit

\* list.index for foundation_suits, 0-based
foundation_index_of(suit) ==
    (CHOOSE i \in 1..Len(foundation_suits) : foundation_suits[i] = suit) - 1

\* Board.__init__
NewBoard ==
    [stock |-> <<>>,
     waste |-> <<>>,
     foundations |-> [i \in 1..Len(foundation_suits) |-> Foundation(foundation_suits[i])],
     tableau_piles |-> <<>>,
     move_count |-> 0,
     state_history |-> {}]

\* a faulty Board._get_state_hash: the foundations' full contents are hashed
get_state_hash_full_foundations(b) ==
    <<b.stock,
      b.waste,
      [i \in 1..Len(b.foundations) |-> b.foundations[i].cards],
      [i \in 1..Len(b.tableau_piles) |->
          <<face_down_count(b.tableau_piles[i]), b.tableau_piles[i].cards>>]>>

\* a faulty Board._get_state_hash: the stock and the waste are left out
get_state_hash_no_stock(b) ==
    <<[i \in 1..Len(b.foundations) |-> top_card(b.foundations[i].cards)],
      [i \in 1..Len(b.tableau_piles) |->
          <<face_down_count(b.tableau_piles[i]), b.tableau_piles[i].cards>>]>>

\* Board._get_state_hash
get_state_hash(b) ==
    <<b.stock,
      b.waste,
      [i \in 1..Len(b.foundations) |-> top_card(b.foundations[i].cards)],
      [i \in 1..Len(b.tableau_piles) |->
          <<face_down_count(b.tableau_piles[i]), b.tableau_piles[i].cards>>]>>

\* random.shuffle(deck): the permutations considered, position i (0-based)
\* of the shuffled deck holds card (a*i + b) mod 52 of the new deck
Multipliers == {3}

Shuffles == {<<a, b>> : a \in Multipliers, b \in 0..MaxOffset}

shuffle(deck, s) ==
    [i \in 1..Len(deck) |-> deck[((s[1] * (i - 1) + s[2]) % Len(deck)) + 1]]

\* Board.setup, step 3: the loop over i in range(7), popping from the deck
RECURSIVE setup_deal(_, _, _)
setup_deal(deck, i, piles) ==
    IF i = NumTableaus
    THEN [deck |-> deck, piles |-> piles]
    ELSE LET face_down_cards == [m \in 1..i |-> deck[Len(deck) - m + 1]]
             face_up_card == deck[Len(deck) - i]
         IN setup_deal(SubSeq(deck, 1, Len(deck) - i - 1), i + 1,
                       Append(piles, Tableau(face_down_cards, <<face_up_card>>)))

\* a faulty Board.setup: the seen set is left as it was
setup_no_history(b, deck) ==
    LET dealt == setup_deal(deck, 0, <<>>)
    IN [b EXCEPT !.tableau_piles = dealt.piles,
                 !.stock = b.stock \o dealt.deck,
                 !.move_count = 0]

\* Board.setup, with the shuffled deck as its input
setup(b, deck) ==
    LET dealt == setup_deal(deck, 0, <<>>)
        b1 == [b EXCEPT !.tableau_piles = dealt.piles,
                        !.stock = b.stock \o dealt.deck,
                        !.move_count = 0]
    IN [b1 EXCEPT !.state_history = {get_state_hash(b1)}]

\* random.choice(face_down_for_piles): the distributions considered, the
\* k-th face-down card (k = 0, 1, ...) goes to pile (c[1] + k * c[2]) mod 7
Choices == {<<0, 0>>, <<0, 1>>}

\* Board.setup_random_scenario, step 2: the pile random.choice gives the
\* k-th face-down card (k = 0, 1, ...), as an index into face_down_for_piles
chosen_pile(c, k) == (c[1] + k * c[2]) % NumTableaus

\* Board.setup_random_scenario, step 2: deck.pop() for each face-down card.
\* The k-th card popped is deck[-1 - k]; pile p holds, in the order they
\* were popped, the cards whose choice was p.
distribute_face_down(deck, number_of_cards, c) ==
    [p1 \in 1..NumTableaus |->
        LET mine == {k \in 0..(number_of_cards - 1) : chosen_pile(c, k) = p1 - 1}
            nth(n) == CHOOSE k \in mine : Cardinality({x \in mine : x < k}) = n - 1
        IN [n \in 1..Cardinality(mine) |-> deck[Len(deck) - nth(n)]]]

\* Board.setup_random_scenario, step 3: for card in deck, from deck[i] on
\* (i counts from 1): the card goes to its foundation if that accepts it,
\* else to the first tableau that accepts it, else to the stock
RECURSIVE place_cards(_, _, _)
place_cards(b, deck, i) ==
    IF i > Len(deck)
    THEN b
    ELSE LET card == deck[i]
             target_foundation_index == foundation_index_of(card.suit)
             foundation == b.foundations[target_foundation_index + 1]
             accepting == {j \in 1..Len(b.tableau_piles) :
                              Tableau_can_add_card(b.tableau_piles[j], card)}
             tableau == CHOOSE j \in accepting : \A k \in accepting : j <= k
         IN IF Foundation_can_add_card(foundation, card)
            THEN place_cards([b EXCEPT !.foundations[target_foundation_index + 1].cards =
                                           add_card(@, card)],
                             deck, i + 1)
            ELSE IF accepting # {}
            THEN place_cards([b EXCEPT !.tableau_piles[tableau].cards = add_card(@, card)],
                             deck, i + 1)
            ELSE place_cards([b EXCEPT !.stock = add_card(@, card)], deck, i + 1)

\* a faulty range check: number_of_cards = 0 is rejected
scenario_raises_zero(number_of_cards) ==
    ~(0 < number_of_cards /\ number_of_cards <= 45)

\* Board.setup_random_scenario raises ValueError (after self.__init__())
scenario_raises(number_of_cards) ==
    ~(0 <= number_of_cards /\ number_of_cards <= 45)

\* Board.setup_random_scenario, with the shuffled deck and the choices of
\* random.choice as its inputs
setup_random_scenario(b, number_of_cards, deck, c) ==
    IF scenario_raises(number_of_cards)
    THEN NewBoard
    ELSE LET face_down_for_piles == distribute_face_down(deck, number_of_cards, c)
             b1 == [NewBoard EXCEPT !.tableau_piles =
                        [p \in 1..NumTableaus |-> Tableau(face_down_for_piles[p], <<>>)]]
             b2 == place_cards(b1, SubSeq(deck, 1, Len(deck) - number_of_cards), 1)
             b3 == [b2 EXCEPT !.tableau_piles =
                        [p \in 1..NumTableaus |-> flip_top_card(b2.tableau_piles[p])]]
         IN [b3 EXCEPT !.state_history = {get_state_hash(b3)}]

\* a faulty Board.is_win: two hidden cards are one too many
is_win_below_two(b) ==
    IF Len(b.tableau_piles) = 0
    THEN FALSE
    ELSE LET RECURSIVE total(_)
             total(i) == IF i = 0 THEN 0
                         ELSE face_down_count(b.tableau_piles[i]) + total(i - 1)
         IN total(Len(b.tableau_piles)) < 2

\* Board.is_win
is_win(b) ==
    IF Len(b.tableau_piles) = 0
    THEN FALSE
    ELSE LET RECURSIVE total(_)
             total(i) == IF i = 0 THEN 0
                         ELSE face_down_count(b.tableau_piles[i]) + total(i - 1)
         IN total(Len(b.tableau_piles)) <= 2

-----------------------------------------------------------------------------
(* move.py: the nine move variants *)

DrawFromStock == [type |-> "DrawFromStock"]

ResetStock == [type |-> "ResetStock"]

WasteToFoundation(foundation_index, card) ==
    [type |-> "WasteToFoundation", foundation_index |-> foundation_index,
     card |-> card]

WasteToTableau(tableau_index, card) ==
    [type |-> "WasteToTableau", tableau_index |-> tableau_index, card |-> card]

TableauToFoundation(source_tableau_index, foundation_index, card) ==
    [type |-> "TableauToFoundation",
     source_tableau_index |-> source_tableau_index,
     foundation_index |-> foundation_index, card |-> card]

TableauToFoundationAndReveal(source_tableau_index, foundation_index, card) ==
    [type |-> "TableauToFoundationAndReveal",
     source_tableau_index |-> source_tableau_index,
     foundation_index |-> foundation_index, card |-> card]

FoundationToTableau(source_foundation_index, dest_tableau_index, card) ==
    [type |-> "FoundationToTableau",
     source_foundation_index |-> source_foundation_index,
     dest_tableau_index |-> dest_tableau_index, card |-> card]

TableauToTableau(source_tableau_index, dest_tableau_index, num_cards, card) ==
    [type |-> "TableauToTableau",
     source_tableau_index |-> source_tableau_index,
     dest_tableau_index |-> dest_tableau_index,
     num_cards |-> num_cards, card |-> card]

TableauToTableauAndReveal(source_tableau_index, dest_tableau_index, num_cards, card) ==
    [type |-> "TableauToTableauAndReveal",
     source_tableau_index |-> source_tableau_index,
     dest_tableau_index |-> dest_tableau_index,
     num_cards |-> num_cards, card |-> card]

\* no move (None) where a move is expected
NoMove == [type |-> "None"]

-----------------------------------------------------------------------------
(* move.py: execute.  Each execute yields the board it leaves and whether  *)
(* it raised; a raise leaves the board as it was at the raising statement. *)

Returned(b) == [board |-> b, raised |-> FALSE]

Raised(b) == [board |-> b, raised |-> TRUE]

\* list[index] raises IndexError
index_raises(list, index) == index >= Len(list) \/ index < 0 - Len(list)

\* the position in the modelled sequence of list[index]
position(list, index) == IF index < 0 THEN Len(list) + index + 1 ELSE index + 1

\* a faulty DrawFromStock.execute: the card is read but not popped
DrawFromStock_execute_no_pop(b, m) ==
    IF Len(b.stock) = 0
    THEN Raised(b)
    ELSE Returned([b EXCEPT !.waste = add_card(b.waste, top_card(b.stock))])

\* DrawFromStock.execute
DrawFromStock_execute(b, m) ==
    IF Len(b.stock) = 0
    THEN Raised(b)
    ELSE Returned([b EXCEPT !.stock = pop_card(b.stock),
                            !.waste = add_card(b.waste, top_card(b.stock))])

\* a faulty ResetStock.execute: the waste is moved over in one piece
ResetStock_loop_in_order(b) ==
    [b EXCEPT !.stock = b.stock \o b.waste, !.waste = <<>>]

\* ResetStock.execute: while board.waste
RECURSIVE ResetStock_loop(_)
ResetStock_loop(b) ==
    IF Len(b.waste) > 0
    THEN ResetStock_loop([b EXCEPT !.stock = add_card(b.stock, top_card(b.waste)),
                                   !.waste = pop_card(b.waste)])
    ELSE b

\* ResetStock.execute
ResetStock_execute(b, m) == Returned(ResetStock_loop(b))

\* WasteToFoundation.execute
WasteToFoundation_execute(b, m) ==
    IF Len(b.waste) = 0
    THEN Raised(b)
    ELSE LET card == top_card(b.waste)
             b1 == [b EXCEPT !.waste = pop_card(b.waste)]
         IN IF index_raises(b1.foundations, m.foundation_index)
            THEN Raised(b1)
            ELSE Returned([b1 EXCEPT
                     !.foundations[position(b1.foundations, m.foundation_index)].cards =
                         add_card(@, card)])

\* WasteToTableau.execute
WasteToTableau_execute(b, m) ==
    IF Len(b.waste) = 0
    THEN Raised(b)
    ELSE LET card == top_card(b.waste)
             b1 == [b EXCEPT !.waste = pop_card(b.waste)]
         IN IF index_raises(b1.tableau_piles, m.tableau_index)
            THEN Raised(b1)
            ELSE Returned([b1 EXCEPT
                     !.tableau_piles[position(b1.tableau_piles, m.tableau_index)].cards =
                         add_card(@, card)])

\* TableauToFoundation.execute
TableauToFoundation_execute(b, m) ==
    IF \/ index_raises(b.tableau_piles, m.source_tableau_index)
       \/ index_raises(b.foundations, m.foundation_index)
    THEN Raised(b)
    ELSE LET s == position(b.tableau_piles, m.source_tableau_index)
             f == position(b.foundations, m.foundation_index)
             source_pile == b.tableau_piles[s]
         IN IF Len(source_pile.cards) = 0
            THEN Raised(b)
            ELSE Returned([b EXCEPT
                     !.tableau_piles[s].cards = pop_card(source_pile.cards),
                     !.foundations[f].cards = add_card(@, top_card(source_pile.cards))])

\* TableauToFoundationAndReveal.execute
TableauToFoundationAndReveal_execute(b, m) ==
    IF index_raises(b.tableau_piles, m.source_tableau_index)
    THEN Raised(b)
    ELSE LET s == position(b.tableau_piles, m.source_tableau_index)
             source_pile == b.tableau_piles[s]
         IN IF Len(source_pile.cards) = 0
            THEN Raised(b)
            ELSE LET card == top_card(source_pile.cards)
                     b1 == [b EXCEPT !.tableau_piles[s].cards = pop_card(source_pile.cards)]
                 IN IF index_raises(b1.foundations, m.foundation_index)
                    THEN Raised(b1)
                    ELSE LET f == position(b1.foundations, m.foundation_index)
                             b2 == [b1 EXCEPT !.foundations[f].cards = add_card(@, card)]
                         IN Returned([b2 EXCEPT !.tableau_piles[s] =
                                          flip_top_card(b2.tableau_piles[s])])

\* a faulty FoundationToTableau.execute: the card moved leaves the
\* foundation together with the card beneath it
FoundationToTableau_execute_pop_two(b, m) ==
    IF \/ index_raises(b.foundations, m.source_foundation_index)
       \/ index_raises(b.tableau_piles, m.dest_tableau_index)
    THEN Raised(b)
    ELSE LET f == position(b.foundations, m.source_foundation_index)
             d == position(b.tableau_piles, m.dest_tableau_index)
             source_pile == b.foundations[f]
         IN IF Len(source_pile.cards) = 0
            THEN Raised(b)
            ELSE Returned([b EXCEPT
                     !.foundations[f].cards =
                         IF Len(source_pile.cards) = 1 THEN <<>>
                         ELSE pop_card(pop_card(source_pile.cards)),
                     !.tableau_piles[d].cards = add_card(@, top_card(source_pile.cards))])

\* FoundationToTableau.execute
FoundationToTableau_execute(b, m) ==
    IF \/ index_raises(b.foundations, m.source_foundation_index)
       \/ index_raises(b.tableau_piles, m.dest_tableau_index)
    THEN Raised(b)
    ELSE LET f == position(b.foundations, m.source_foundation_index)
             d == position(b.tableau_piles, m.dest_tableau_index)
             source_pile == b.foundations[f]
         IN IF Len(source_pile.cards) = 0
            THEN Raised(b)
            ELSE Returned([b EXCEPT
                     !.foundations[f].cards = pop_card(source_pile.cards),
                     !.tableau_piles[d].cards = add_card(@, top_card(source_pile.cards))])

\* TableauToTableau.execute
TableauToTableau_execute(b, m) ==
    IF \/ index_raises(b.tableau_piles, m.source_tableau_index)
       \/ index_raises(b.tableau_piles, m.dest_tableau_index)
    THEN Raised(b)
    ELSE LET s == position(b.tableau_piles, m.source_tableau_index)
             d == position(b.tableau_piles, m.dest_tableau_index)
             cards_to_move == pop_stack_stack(b.tableau_piles[s].cards, m.num_cards)
             b1 == [b EXCEPT !.tableau_piles[s].cards =
                                 pop_stack_rest(b.tableau_piles[s].cards, m.num_cards)]
         IN Returned([b1 EXCEPT !.tableau_piles[d].cards = @ \o cards_to_move])

\* TableauToTableauAndReveal.execute
TableauToTableauAndReveal_execute(b, m) ==
    LET moved == TableauToTableau_execute(b, m) IN
    IF moved.raised
    THEN moved
    ELSE LET s == position(b.tableau_piles, m.source_tableau_index)
         IN Returned([moved.board EXCEPT !.tableau_piles[s] =
                          flip_top_card(moved.board.tableau_piles[s])])

\* move.execute(board): dispatch on the move's class
execute(b, m) ==
    CASE m.type = "DrawFromStock" -> DrawFromStock_execute(b, m)
      [] m.type = "ResetStock" -> ResetStock_execute(b, m)
      [] m.type = "WasteToFoundation" -> WasteToFoundation_execute(b, m)
      [] m.type = "WasteToTableau" -> WasteToTableau_execute(b, m)
      [] m.type = "TableauToFoundation" -> TableauToFoundation_execute(b, m)
      [] m.type = "TableauToFoundationAndReveal" ->
             TableauToFoundationAndReveal_execute(b, m)
      [] m.type = "FoundationToTableau" -> FoundationToTableau_execute(b, m)
      [] m.type = "TableauToTableau" -> TableauToTableau_execute(b, m)
      [] m.type = "TableauToTableauAndReveal" ->
             TableauToTableauAndReveal_execute(b, m)

\* a faulty Board.execute_move: the move is not counted
execute_move_uncounted(b, m) ==
    execute(b, m)

\* Board.execute_move
execute_move(b, m) ==
    LET done == execute(b, m) IN
    IF done.raised
    THEN done
    ELSE Returned([done.board EXCEPT !.move_count = @ + 1])

-----------------------------------------------------------------------------
(* board.py: Board.get_legal_moves *)

\* the concatenation of a list of lists
RECURSIVE Flatten(_)
Flatten(lists) ==
    IF Len(lists) = 0 THEN <<>> ELSE Head(lists) \o Flatten(Tail(lists))

\* a faulty stock/waste enumeration: the reset is not under an else
stock_moves_no_else(b) ==
    (IF Len(b.stock) > 0 THEN <<DrawFromStock>> ELSE <<>>)
    \o (IF Len(b.waste) > 0 THEN <<ResetStock>> ELSE <<>>)

\* 1. Moves from Stock/Waste
stock_moves(b) ==
    IF Len(b.stock) > 0
    THEN <<DrawFromStock>>
    ELSE IF Len(b.waste) > 0
    THEN <<ResetStock>>
    ELSE <<>>

\* 2. Moves from Waste pile
waste_moves(b) ==
    LET top_waste_card == top_card(b.waste) IN
    IF top_waste_card = None
    THEN <<>>
    ELSE LET target_foundation_index == foundation_index_of(top_waste_card.suit)
             foundation == b.foundations[target_foundation_index + 1]
         IN (IF Foundation_can_add_card(foundation, top_waste_card)
             THEN <<WasteToFoundation(target_foundation_index, top_waste_card)>>
             ELSE <<>>)
            \o Flatten([p \in 1..Len(b.tableau_piles) |->
                   IF Tableau_can_add_card(b.tableau_piles[p], top_waste_card)
                   THEN <<WasteToTableau(p - 1, top_waste_card)>>
                   ELSE <<>>])

\* a faulty 3a: the reveal variant whenever the source has hidden cards
tableau_to_foundation_moves_if_hidden(b, i) ==
    LET source_pile == b.tableau_piles[i + 1]
        top_tableau_card == top_card(source_pile.cards)
    IN IF top_tableau_card = None
       THEN <<>>
       ELSE LET target_foundation_index == foundation_index_of(top_tableau_card.suit)
                foundation == b.foundations[target_foundation_index + 1]
            IN IF ~Foundation_can_add_card(foundation, top_tableau_card)
               THEN <<>>
               ELSE IF face_down_count(source_pile) > 0
               THEN <<TableauToFoundationAndReveal(i, target_foundation_index,
                                                   top_tableau_card)>>
               ELSE <<TableauToFoundation(i, target_foundation_index,
                                          top_tableau_card)>>

\* 3a. Tableau to Foundation, for source tableau i
tableau_to_foundation_moves(b, i) ==
    LET source_pile == b.tableau_piles[i + 1]
        top_tableau_card == top_card(source_pile.cards)
    IN IF top_tableau_card = None
       THEN <<>>
       ELSE LET target_foundation_index == foundation_index_of(top_tableau_card.suit)
                foundation == b.foundations[target_foundation_index + 1]
                will_reveal_card == /\ Len(source_pile.cards) = 1
                                    /\ face_down_count(source_pile) > 0
            IN IF ~Foundation_can_add_card(foundation, top_tableau_card)
               THEN <<>>
               ELSE IF will_reveal_card
               THEN <<TableauToFoundationAndReveal(i, target_foundation_index,
                                                   top_tableau_card)>>
               ELSE <<TableauToFoundation(i, target_foundation_index,
                                          top_tableau_card)>>

\* a faulty stack size: the index k taken as counted from 1
stack_size_from_one(source_pile, k) == Len(source_pile.cards) - k - 1

\* 3b. Tableau to Tableau: the number of cards moved with the card at index k
stack_size(source_pile, k) == Len(source_pile.cards) - k

\* a faulty loop over dest piles: the king-to-empty flag is never consulted
RECURSIVE tableau_to_tableau_dests_no_flag(_, _, _, _, _)
tableau_to_tableau_dests_no_flag(b, i, k, j, king_to_empty_move_generated) ==
    IF j >= Len(b.tableau_piles)
    THEN <<>>
    ELSE LET source_pile == b.tableau_piles[i + 1]
             dest_pile == b.tableau_piles[j + 1]
             card_in_stack == source_pile.cards[k + 1]
             num_cards == Len(source_pile.cards) - k
             will_reveal_card == k = 0 /\ face_down_count(source_pile) > 0
             is_king_to_empty == card_in_stack.rank = KING /\ Len(dest_pile.cards) = 0
         IN IF i = j \/ ~Tableau_can_add_card(dest_pile, card_in_stack)
                     \/ (is_king_to_empty /\ ~will_reveal_card)
            THEN tableau_to_tableau_dests_no_flag(b, i, k, j + 1, FALSE)
            ELSE <<IF will_reveal_card
                   THEN TableauToTableauAndReveal(i, j, num_cards, card_in_stack)
                   ELSE TableauToTableau(i, j, num_cards, card_in_stack)>>
                 \o tableau_to_tableau_dests_no_flag(b, i, k, j + 1, FALSE)

\* 3b. Tableau to Tableau: the loop over dest piles j, j+1, ... for source
\* tableau i and the card at index k of its face-up cards
RECURSIVE tableau_to_tableau_dests(_, _, _, _, _)
tableau_to_tableau_dests(b, i, k, j, king_to_empty_move_generated) ==
    IF j >= Len(b.tableau_piles)
    THEN <<>>
    ELSE LET source_pile == b.tableau_piles[i + 1]
             dest_pile == b.tableau_piles[j + 1]
             card_in_stack == source_pile.cards[k + 1]
             num_cards == stack_size(source_pile, k)
             will_reveal_card == k = 0 /\ face_down_count(source_pile) > 0
             is_king_to_empty == card_in_stack.rank = KING /\ Len(dest_pile.cards) = 0
         IN IF i = j
            THEN tableau_to_tableau_dests(b, i, k, j + 1, king_to_empty_move_generated)
            ELSE IF ~Tableau_can_add_card(dest_pile, card_in_stack)
            THEN tableau_to_tableau_dests(b, i, k, j + 1, king_to_empty_move_generated)
            ELSE IF is_king_to_empty /\ ~will_reveal_card
            THEN tableau_to_tableau_dests(b, i, k, j + 1, king_to_empty_move_generated)
            ELSE IF is_king_to_empty /\ king_to_empty_move_generated
            THEN tableau_to_tableau_dests(b, i, k, j + 1, king_to_empty_move_generated)
            ELSE <<IF will_reveal_card
                   THEN TableauToTableauAndReveal(i, j, num_cards, card_in_stack)
                   ELSE TableauToTableau(i, j, num_cards, card_in_stack)>>
                 \o tableau_to_tableau_dests(b, i, k, j + 1,
                        king_to_empty_move_generated \/ is_king_to_empty)

\* a faulty enumeration for source tableau i: only the top card is tried
tableau_to_tableau_moves_top_only(b, i) ==
    IF Len(b.tableau_piles[i + 1].cards) = 0
    THEN <<>>
    ELSE tableau_to_tableau_dests(b, i, Len(b.tableau_piles[i + 1].cards) - 1,
                                  0, FALSE)

\* 3b. Tableau to Tableau, for source tableau i
tableau_to_tableau_moves(b, i) ==
    Flatten([k1 \in 1..Len(b.tableau_piles[i + 1].cards) |->
                tableau_to_tableau_dests(b, i, k1 - 1, 0, FALSE)])

\* 3. Moves from Tableau piles
tableau_moves(b) ==
    Flatten([i1 \in 1..Len(b.tableau_piles) |->
                tableau_to_foundation_moves(b, i1 - 1)
                \o tableau_to_tableau_moves(b, i1 - 1)])

\* 4. Moves from Foundation piles
foundation_moves(b) ==
    Flatten([i1 \in 1..Len(b.foundations) |->
        LET card_to_move == top_card(b.foundations[i1].cards) IN
        IF card_to_move = None
        THEN <<>>
        ELSE Flatten([j1 \in 1..Len(b.tableau_piles) |->
                 IF Tableau_can_add_card(b.tableau_piles[j1], card_to_move)
                 THEN <<FoundationToTableau(i1 - 1, j1 - 1, card_to_move)>>
                 ELSE <<>>])])

\* Board.get_legal_moves
get_legal_moves(b) ==
    stock_moves(b) \o waste_moves(b) \o tableau_moves(b) \o foundation_moves(b)

-----------------------------------------------------------------------------
(* __main__.py: play_game, and player.py *)

MAX_MOVES == 999

\* a faulty cap check: one move too late
cap_reached_late(b) ==
    b.move_count > MAX_MOVES

\* play_game: if board.move_count >= MAX_MOVES
cap_reached(b) ==
    b.move_count >= MAX_MOVES

\* a faulty filter loop: the move is not executed on temp_board
RECURSIVE productive_moves_no_execute(_, _, _)
productive_moves_no_execute(b, all_legal_moves, n) ==
    IF n > Len(all_legal_moves)
    THEN <<>>
    ELSE (IF get_state_hash(b) \notin b.state_history
          THEN <<all_legal_moves[n]>>
          ELSE <<>>)
         \o productive_moves_no_execute(b, all_legal_moves, n + 1)

\* play_game: the loop "for move in all_legal_moves" from the n-th move on.
\* temp_board is a deep copy, so the board itself is left as it is.
RECURSIVE productive_moves(_, _, _)
productive_moves(b, all_legal_moves, n) ==
    IF n > Len(all_legal_moves)
    THEN <<>>
    ELSE LET move == all_legal_moves[n]
             temp_board == execute_move(b, move).board
             new_state_hash == get_state_hash(temp_board)
         IN (IF new_state_hash \notin b.state_history THEN <<move>> ELSE <<>>)
            \o productive_moves(b, all_legal_moves, n + 1)

\* play_game: temp_board.execute_move(move) raises for some legal move
speculation_raises(b, all_legal_moves) ==
    \E n \in 1..Len(all_legal_moves) : execute_move(b, all_legal_moves[n]).raised

\* play_game: productive_moves if productive_moves else all_legal_moves
moves_to_consider(b, all_legal_moves) ==
    LET productive == productive_moves(b, all_legal_moves, 1) IN
    IF Len(productive) > 0 THEN productive ELSE all_legal_moves

\* the players of player.py
Players == {"AIPlayer", "SimplePlayer", "HumanPlayer"}

\* player.select_move(board, legal_moves): the values it may return.
\* AIPlayer and SimplePlayer return legal_moves[0]; HumanPlayer returns the
\* move the user selects, or None (NoMove) when the user quits.  The user's
\* selections are explored on the first MaxUserMoves turns only.
select_move(player, b, legal_moves) ==
    IF player \in {"AIPlayer", "SimplePlayer"}
    THEN {legal_moves[1]}
    ELSE {NoMove} \cup (IF b.move_count < MaxUserMoves
                        THEN {legal_moves[n] : n \in 1..Len(legal_moves)}
                        ELSE {})

\* a faulty bookkeeping step: the new fingerprint is not added
record_state_nothing(b) ==
    b

\* play_game: board._state_history.add(board._get_state_hash())
record_state(b) ==
    [b EXCEPT !.state_history = @ \cup {get_state_hash(b)}]

-----------------------------------------------------------------------------
(* The board from construction through set-up and play *)

\* no pile is being asked
NoProbe == [kind |-> "None"]

\* play_game has not been called
NoGame == [pc |-> "none"]

\* the values of number_of_cards considered
ScenarioSizes == {0, 1, 3, 8, 20, 45}

\* the calls that prepare a board
ByInit == [op |-> "__init__"]

BySetup == [op |-> "setup"]

ByScenario(number_of_cards) ==
    [op |-> "setup_random_scenario", number_of_cards |-> number_of_cards]

\* board = Board()
Init ==
    /\ board = NewBoard
    /\ last_move = NoMove
    /\ raised = FALSE
    /\ probe = NoProbe
    /\ game = NoGame
    /\ twin = NewBoard
    /\ prepared_by = ByInit

\* board = Board(); board.setup()
Setup ==
    /\ board = NewBoard
    /\ ~raised
    /\ \E s \in Shuffles : board' = setup(board, shuffle(NewDeck, s))
    /\ prepared_by' = BySetup
    /\ UNCHANGED <<last_move, raised, probe, game, twin>>

\* board = Board(); board.setup_random_scenario(number_of_cards)
SetupRandomScenario ==
    /\ board = NewBoard
    /\ ~raised
    /\ \E number_of_cards \in ScenarioSizes, s \in Shuffles, c \in Choices :
           /\ board' = setup_random_scenario(board, number_of_cards,
                                             shuffle(NewDeck, s), c)
           /\ raised' = scenario_raises(number_of_cards)
           /\ prepared_by' = ByScenario(number_of_cards)
    /\ UNCHANGED <<last_move, probe, game, twin>>

\* board.execute_move(m) for a move m of board.get_legal_moves()
Play(m) ==
    /\ ~raised
    /\ board.move_count < MaxMoves
    /\ LET done == execute_move(board, m) IN
           /\ board' = done.board
           /\ raised' = done.raised
    /\ last_move' = m
    /\ UNCHANGED <<probe, game, twin, prepared_by>>

\* the elements of a list
ToSet(list) == {list[n] : n \in 1..Len(list)}

\* move = one of board.get_legal_moves(); board.execute_move(move)
ExecuteMove == \E m \in ToSet(get_legal_moves(board)) : Play(m)

Next ==
    \/ Setup
    \/ SetupRandomScenario
    \/ ExecuteMove

Spec == Init /\ [][Next]_vars

-----------------------------------------------------------------------------
(* Games: run_human_game and run_training_session call play_game *)

\* the shuffles considered for games: those of Shuffles and one more
GameShuffles == Shuffles \cup {<<27, 29>>}

\* the values of number_of_cards considered for games (the training session
\* asks for number_of_cards >= 1; 0 is the least value the board accepts)
GameScenarioSizes == {0, 1, 3, 8, 45}

\* the scenarios considered for games, as <<number_of_cards, shuffle,
\* choices>>, and one more
GameScenarios ==
    {<<n, s, c>> : n \in GameScenarioSizes, s \in Shuffles, c \in Choices}
    \cup {<<19, <<1, 9>>, <<5, 1>>>>}

\* play_game(board, player, view, interactive) has been called
NewGame(player, interactive) ==
    [pc |-> "playing", player |-> player, interactive |-> interactive,
     result |-> FALSE, moves_to_consider |-> <<>>, played |-> 0]

\* run_human_game: board = Board(); board.setup(); play_game(board, player,
\* view, interactive=True) with a SimplePlayer, or the HumanPlayer it replaces
RunHumanGameWith(shuffles, players) ==
    /\ board = NewBoard
    /\ game = NoGame
    /\ \E s \in shuffles, player \in players :
           /\ board' = setup(board, shuffle(NewDeck, s))
           /\ game' = NewGame(player, TRUE)
    /\ prepared_by' = BySetup
    /\ UNCHANGED <<last_move, raised, probe, twin>>

RunHumanGame == RunHumanGameWith(GameShuffles, {"SimplePlayer", "HumanPlayer"})

\* play_game called as one trial of run_training_session calls it: board =
\* Board(); board.setup_random_scenario(number_of_cards=num_cards);
\* play_game(board, AIPlayer(verbose=False), view, interactive=False).  The
\* session itself never gets this far (the name "view" is unbound in
\* run_training_session, so its call raises NameError before play_game is
\* entered); the action is play_game on a scenario board, given a view.
PlayScenarioGameWith(scenarios) ==
    /\ board = NewBoard
    /\ game = NoGame
    /\ \E x \in scenarios :
           /\ board' = setup_random_scenario(board, x[1], shuffle(NewDeck, x[2]), x[3])
           /\ game' = NewGame("AIPlayer", FALSE)
           /\ prepared_by' = ByScenario(x[1])
    /\ UNCHANGED <<last_move, raised, probe, twin>>

PlayScenarioGame == PlayScenarioGameWith(GameScenarios)

\* a faulty return: every ending is reported as a win
Return_True(result, considered) ==
    /\ game' = [game EXCEPT !.pc = "returned", !.result = TRUE,
                            !.moves_to_consider = considered]
    /\ UNCHANGED <<board, last_move, raised, probe, twin, prepared_by>>

\* play_game: return result
Return(result, considered) ==
    /\ game' = [game EXCEPT !.pc = "returned", !.result = result,
                            !.moves_to_consider = considered]
    /\ UNCHANGED <<board, last_move, raised, probe, twin, prepared_by>>

\* play_game: one pass of "while not board.is_win()", or the return after it
Turn ==
    /\ game.pc = "playing"
    /\ ~raised
    /\ IF is_win(board)
       THEN Return(TRUE, game.moves_to_consider)
       ELSE IF cap_reached(board)
       THEN Return(FALSE, game.moves_to_consider)
       ELSE \E all_legal_moves \in {get_legal_moves(board)} :
            IF speculation_raises(board, all_legal_moves)
            THEN /\ raised' = TRUE
                 /\ UNCHANGED <<board, last_move, probe, game, twin, prepared_by>>
            ELSE \E considered \in {moves_to_consider(board, all_legal_moves)} :
                 IF Len(considered) = 0
                 THEN Return(FALSE, considered)
                 ELSE \E selected_move \in
                          (IF Len(considered) = 1 /\ game.interactive
                           THEN {considered[1]}
                           ELSE select_move(game.player, board, considered)) :
                      IF selected_move = NoMove
                      THEN Return(FALSE, considered)
                      ELSE \E done \in {execute_move(board, selected_move)} :
                           /\ board' = (IF done.raised THEN done.board
                                        ELSE record_state(done.board))
                           /\ raised' = done.raised
                           /\ last_move' = selected_move
                           /\ game' = [game EXCEPT !.moves_to_consider = considered,
                                                   !.played = @ + 1]
                           /\ UNCHANGED <<probe, twin, prepared_by>>

NextGame ==
    \/ RunHumanGame
    \/ PlayScenarioGame
    \/ Turn

SpecGame == Init /\ [][NextGame]_vars

\* play_game, not yet returned, has taken a turn: every turn changes where
\* the game stands, by returning or by counting the move it played.  (The
\* first disjunct is a case of the second, written as an assignment.)
TurnTaken ==
    /\ game.pc = "playing"
    /\ ~raised
    /\ \/ /\ game' = [game EXCEPT !.pc = "returned"]
          /\ UNCHANGED <<board, last_move, raised, probe, twin, prepared_by>>
       \/ game' # game

\* the scenarios whose games are followed to their end under fairness: the
\* smallest and the largest of ScenarioSizes, and the one more of
\* GameScenarios
FairScenarios ==
    {<<n, s, c>> : n \in {1, 3, 45}, s \in Shuffles, c \in Choices}
    \cup {<<19, <<1, 9>>, <<5, 1>>>>}

\* run_human_game with the HumanPlayer
RunHumanPlayerGame == RunHumanGameWith(Shuffles, {"HumanPlayer"})

\* play_game on a board of FairScenarios
PlayFairScenarioGame == PlayScenarioGameWith(FairScenarios)

NextGameFair ==
    \/ RunHumanPlayerGame
    \/ PlayFairScenarioGame
    \/ Turn

\* play_game runs in one call stack: while it has not returned and every
\* player call returns, its loop takes its next turn
SpecGameFair == Init /\ [][NextGameFair]_vars /\ WF_vars(TurnTaken)

-----------------------------------------------------------------------------
(* Two boards with one fingerprint: the same preparation from two shuffles
   that differ in two neighbouring cards of the deck, then the same moves *)

\* another outcome of random.shuffle(deck): the cards at i and i + 1 exchanged
exchanged(deck, i) ==
    [k \in 1..Len(deck) |-> IF k = i THEN deck[i + 1]
                            ELSE IF k = i + 1 THEN deck[i]
                            ELSE deck[k]]

\* the values of number_of_cards considered for a pair of boards
TwinScenarioSizes == {3, 8}

\* the two boards are given when their fingerprints are equal
Twins(b1, b2, by) ==
    /\ get_state_hash(b1) = get_state_hash(b2)
    /\ board' = b1
    /\ twin' = b2
    /\ prepared_by' = by
    /\ UNCHANGED <<last_move, raised, probe, game>>

\* b1 = Board(); b1.setup(); b2 = Board(); b2.setup()
SetupTwins ==
    /\ board = NewBoard
    /\ twin = NewBoard
    /\ \E s \in Shuffles, i \in 1..(Len(NewDeck) - 1) :
           \E deck \in {shuffle(NewDeck, s)} :
               Twins(setup(board, deck), setup(twin, exchanged(deck, i)), BySetup)

\* b1 = Board(); b1.setup_random_scenario(n); b2 = Board();
\* b2.setup_random_scenario(n), with the same random choices
ScenarioTwins ==
    /\ board = NewBoard
    /\ twin = NewBoard
    /\ \E number_of_cards \in TwinScenarioSizes, s \in Shuffles, c \in Choices,
          i \in 1..(Len(NewDeck) - 1) :
           \E deck \in {shuffle(NewDeck, s)} :
               Twins(setup_random_scenario(board, number_of_cards, deck, c),
                     setup_random_scenario(twin, number_of_cards,
                                           exchanged(deck, i), c),
                     ByScenario(number_of_cards))

\* b1.execute_move(m); b2.execute_move(m) for a move m legal on both boards
PlayTwins ==
    /\ twin # NewBoard
    /\ ~raised
    /\ board.move_count < MaxTwinMoves
    /\ get_state_hash(board) = get_state_hash(twin)
    /\ \E m \in ToSet(get_legal_moves(board)) \cap ToSet(get_legal_moves(twin)) :
           \E done1 \in {execute_move(board, m)}, done2 \in {execute_move(twin, m)} :
               /\ board' = done1.board
               /\ twin' = done2.board
               /\ raised' = (done1.raised \/ done2.raised)
               /\ last_move' = m
    /\ UNCHANGED <<probe, game, prepared_by>>

NextTwins ==
    \/ SetupTwins
    \/ ScenarioTwins
    \/ PlayTwins

SpecTwins == Init /\ [][NextTwins]_vars

-----------------------------------------------------------------------------
(* _get_state_hash asked of a board and of a variation of it: the board is
   prepared and played, then a second Board object is given the same piles
   with one pile changed *)

\* board.execute_move(m) for a move m of board.get_legal_moves()
PlayBeforePrint ==
    /\ twin = NewBoard
    /\ ~raised
    /\ board.move_count < MaxPrintMoves
    /\ \E m \in ToSet(get_legal_moves(board)) :
           \E done \in {execute_move(board, m)} :
               /\ board' = done.board
               /\ raised' = done.raised
               /\ last_move' = m
    /\ UNCHANGED <<probe, game, twin, prepared_by>>

\* the variations of a list of cards: its first two or its last two cards
\* exchanged, or the first card missing
Variations(cards) ==
    {exchanged(cards, i) : i \in {1, Len(cards) - 1} \cap 1..(Len(cards) - 1)}
    \cup (IF Len(cards) > 0 THEN {Tail(cards)} ELSE {})

\* the second board is the first with one pile changed
Vary(b) ==
    /\ twin = NewBoard
    /\ board # NewBoard
    /\ ~raised
    /\ twin' = b
    /\ UNCHANGED <<board, last_move, raised, probe, game, prepared_by>>

\* the stock holds other cards, or its cards in another order
VaryStock ==
    \E cards \in Variations(board.stock) : Vary([board EXCEPT !.stock = cards])

\* the waste holds other cards, or its cards in another order
VaryWaste ==
    \E cards \in Variations(board.waste) : Vary([board EXCEPT !.waste = cards])

\* a foundation holds other cards, or its cards in another order
VaryFoundation ==
    \E f \in 1..Len(board.foundations) :
        \E cards \in Variations(board.foundations[f].cards) :
            Vary([board EXCEPT !.foundations[f].cards = cards])

\* a tableau shows other cards, or its cards in another order
VaryVisible ==
    \E p \in 1..Len(board.tableau_piles) :
        \E cards \in Variations(board.tableau_piles[p].cards) :
            Vary([board EXCEPT !.tableau_piles[p].cards = cards])

\* a tableau hides other cards, or its cards in another order
VaryHidden ==
    \E p \in 1..Len(board.tableau_piles) :
        \E cards \in Variations(board.tableau_piles[p].face_down_cards) :
            Vary([board EXCEPT !.tableau_piles[p].face_down_cards = cards])

NextPrints ==
    \/ Setup
    \/ SetupRandomScenario
    \/ PlayBeforePrint
    \/ VaryStock
    \/ VaryWaste
    \/ VaryFoundation
    \/ VaryVisible
    \/ VaryHidden

SpecPrints == Init /\ [][NextPrints]_vars

-----------------------------------------------------------------------------
(* A board prepared a second time: setup() or setup_random_scenario(n)
   called on a board that was constructed, dealt or played *)

\* setup(), or setup_random_scenario(number_of_cards), called on a board that
\* was prepared before
BySetupAgain == [op |-> "setup", again |-> TRUE]
ByScenarioAgain(number_of_cards) ==
    [op |-> "setup_random_scenario", number_of_cards |-> number_of_cards,
     again |-> TRUE]

\* the board has been prepared no more than once
PreparedOnce == "again" \notin DOMAIN prepared_by

\* the values of number_of_cards considered for the second preparation: the
\* ends of the accepted range, their neighbours outside it, and one inside
RedealSizes == {-1, 0, 3, 45, 46}

\* the shuffle and the choices of the second setup_random_scenario (the call
\* starts with self.__init__(), so what it builds is the same on every board)
RedealShuffle == <<3, 1>>
RedealChoices == <<0, 1>>

\* board.execute_move(m) for a move m of board.get_legal_moves(), on a board
\* that may be prepared again
PlayBeforeRedeal ==
    /\ ~raised
    /\ board.move_count < MaxRedealMoves
    /\ \E m \in ToSet(get_legal_moves(board)) :
           \E done \in {execute_move(board, m)} :
               /\ board' = done.board
               /\ raised' = done.raised
               /\ last_move' = m
    /\ UNCHANGED <<probe, game, twin, prepared_by>>

\* board.setup() on a board that was dealt, and perhaps played
SetupAgain ==
    /\ ~raised
    /\ PreparedOnce
    /\ prepared_by # ByInit
    /\ \E s \in Shuffles : board' = setup(board, shuffle(NewDeck, s))
    /\ prepared_by' = BySetupAgain
    /\ last_move' = NoMove
    /\ UNCHANGED <<raised, probe, game, twin>>

\* board.setup_random_scenario(number_of_cards) on a board that was
\* constructed, dealt or played
SetupRandomScenarioAgain ==
    /\ ~raised
    /\ PreparedOnce
    /\ \E number_of_cards \in RedealSizes :
           /\ board' = setup_random_scenario(board, number_of_cards,
                                             shuffle(NewDeck, RedealShuffle),
                                             RedealChoices)
           /\ raised' = scenario_raises(number_of_cards)
           /\ prepared_by' = ByScenarioAgain(number_of_cards)
    /\ last_move' = NoMove
    /\ UNCHANGED <<probe, game, twin>>

NextRedeal ==
    \/ Setup
    \/ SetupRandomScenario
    \/ PlayBeforeRedeal
    \/ SetupAgain
    \/ SetupRandomScenarioAgain

SpecRedeal == Init /\ [][NextRedeal]_vars

-----------------------------------------------------------------------------
(* Two boards of one game: both are reached by legal moves from the same
   prepared board *)

\* the values of number_of_cards considered for two boards of one game
PairScenarioSizes == {8, 45}

\* board = Board(); board.setup(); both boards of the pair are this board
SetupPair ==
    /\ board = NewBoard
    /\ twin = NewBoard
    /\ \E s \in Shuffles :
           \E b \in {setup(board, shuffle(NewDeck, s))} :
               /\ board' = b
               /\ twin' = b
    /\ prepared_by' = BySetup
    /\ UNCHANGED <<last_move, raised, probe, game>>

\* board = Board(); board.setup_random_scenario(number_of_cards); both boards
\* of the pair are this board
ScenarioPair ==
    /\ board = NewBoard
    /\ twin = NewBoard
    /\ \E number_of_cards \in PairScenarioSizes, s \in Shuffles, c \in Choices :
           \E b \in {setup_random_scenario(board, number_of_cards,
                                           shuffle(NewDeck, s), c)} :
               /\ board' = b
               /\ twin' = b
               /\ prepared_by' = ByScenario(number_of_cards)
    /\ UNCHANGED <<last_move, raised, probe, game>>

\* the first board of the pair: board.execute_move(m) for a move m of
\* board.get_legal_moves()
PlayFirst ==
    /\ twin # NewBoard
    /\ ~raised
    /\ board.move_count < MaxPairMoves
    /\ \E m \in ToSet(get_legal_moves(board)) :
           \E done \in {execute_move(board, m)} :
               /\ board' = done.board
               /\ raised' = done.raised
               /\ last_move' = m
    /\ UNCHANGED <<probe, game, twin, prepared_by>>

\* the second board of the pair, which is the one that has played no more
\* moves than the first: twin.execute_move(m) for a move m of
\* twin.get_legal_moves()
PlaySecond ==
    /\ twin # NewBoard
    /\ ~raised
    /\ twin.move_count < board.move_count
    /\ \E m \in ToSet(get_legal_moves(twin)) :
           \E done \in {execute_move(twin, m)} :
               /\ twin' = done.board
               /\ raised' = done.raised
    /\ UNCHANGED <<board, last_move, probe, game, prepared_by>>

NextPair ==
    \/ SetupPair
    \/ ScenarioPair
    \/ PlayFirst
    \/ PlaySecond

SpecPair == Init /\ [][NextPair]_vars

-----------------------------------------------------------------------------
(* Going through the stock: draws and resets only, on a prepared board; twin
   is the board as it was prepared *)

\* board.execute_move(DrawFromStock()) when get_legal_moves offers it
DrawStep ==
    /\ twin # NewBoard
    /\ ~raised
    /\ board.move_count < MaxStockMoves
    /\ \E m \in ToSet(stock_moves(board)) \cap {DrawFromStock} :
           \E done \in {execute_move(board, m)} :
               /\ board' = done.board
               /\ raised' = done.raised
               /\ last_move' = m
    /\ UNCHANGED <<probe, game, twin, prepared_by>>

\* board.execute_move(ResetStock()) when get_legal_moves offers it
ResetStep ==
    /\ twin # NewBoard
    /\ ~raised
    /\ board.move_count < MaxStockMoves
    /\ \E m \in ToSet(stock_moves(board)) \cap {ResetStock} :
           \E done \in {execute_move(board, m)} :
               /\ board' = done.board
               /\ raised' = done.raised
               /\ last_move' = m
    /\ UNCHANGED <<probe, game, twin, prepared_by>>

NextStock ==
    \/ SetupPair
    \/ ScenarioPair
    \/ DrawStep
    \/ ResetStep

SpecStock == Init /\ [][NextStock]_vars

-----------------------------------------------------------------------------
(* Properties of the boards reached by play *)

\* the board has been set up (setup or setup_random_scenario has run)
IsSetUp == Len(board.tableau_piles) > 0

\* every card of the board, pile after pile
CardsOnBoard(b) ==
    b.stock \o b.waste
    \o Flatten([f \in 1..Len(b.foundations) |-> b.foundations[f].cards])
    \o Flatten([t \in 1..Len(b.tableau_piles) |->
                   b.tableau_piles[t].face_down_cards \o b.tableau_piles[t].cards])

\* the 52 (rank, suit) pairs
StandardCards ==
    {[rank |-> r, suit |-> s] :
        r \in 1..13, s \in {"HEARTS", "DIAMONDS", "CLUBS", "SPADES"}}

\* how many entries of a list satisfy equality with x
Count(list, x) == Cardinality({n \in 1..Len(list) : list[n] = x})

\* C1: on every board reached from setup() or setup_random_scenario(n) by
\* enumerated legal moves, the stock, the waste, the foundations and the
\* hidden and visible parts of the tableaus together hold each of the 52
\* cards exactly once.
C1_CardConservation ==
    IsSetUp =>
        \A all \in {CardsOnBoard(board)} :
            /\ Len(all) = 52
            /\ \A c \in StandardCards : Count(all, c) = 1

\* C1 witness: after some moves, among them a tableau move with a reveal,
\* cards lie on the waste, on a foundation and hidden in a tableau.
C1_Witness ==
    /\ board.move_count >= 3
    /\ last_move.type = "TableauToTableauAndReveal"
    /\ Len(board.waste) > 0
    /\ \E f \in 1..Len(board.foundations) : Len(board.foundations[f].cards) > 0
    /\ \E t \in 1..Len(board.tableau_piles) :
           Len(board.tableau_piles[t].face_down_cards) > 0

\* a descending run of alternating colors, read bottom to top
IsRun(cards) ==
    \A n \in 1..(Len(cards) - 1) :
        /\ cards[n + 1].rank = cards[n].rank - 1
        /\ color(cards[n + 1].suit) # color(cards[n].suit)

\* C2: on every reachable board each tableau's face-up cards, bottom to top,
\* have consecutive descending ranks and alternating colors.
C2_TableauRun ==
    \A t \in 1..Len(board.tableau_piles) : IsRun(board.tableau_piles[t].cards)

\* C2 witness: a multi-card tableau-to-tableau move with reveal has just
\* been executed: the destination holds a longer run and the source shows
\* the single card just flipped.
C2_Witness ==
    /\ last_move.type = "TableauToTableauAndReveal"
    /\ last_move.num_cards >= 2
    /\ Len(board.tableau_piles[last_move.dest_tableau_index + 1].cards) >= 3
    /\ Len(board.tableau_piles[last_move.source_tableau_index + 1].cards) = 1

\* C3: on every reachable board the foundation at index i holds, bottom to
\* top, exactly the cards of ranks 1..k of suit foundation_suits[i], for
\* some k in 0..13.
C3_FoundationRun ==
    \A f \in 1..Len(board.foundations) :
        LET cards == board.foundations[f].cards IN
        /\ board.foundations[f].suit = foundation_suits[f]
        /\ Len(cards) <= 13
        /\ \A n \in 1..Len(cards) :
               cards[n] = [rank |-> n, suit |-> foundation_suits[f]]

\* C3 witness: a move has just put a card on a foundation, which now holds
\* two cards or more.
C3_Witness ==
    /\ last_move.type \in {"WasteToFoundation", "TableauToFoundation",
                           "TableauToFoundationAndReveal"}
    /\ Len(board.foundations[last_move.foundation_index + 1].cards) >= 2

\* what move.execute needs of the board: a non-empty source pile, pile
\* indices within range and, for a stack, 1 <= num_cards <= face-up cards
Executable(b, m) ==
    LET tableau_ok(index) == index \in 0..6 /\ index < Len(b.tableau_piles)
        foundation_ok(index) == index \in 0..3 /\ index < Len(b.foundations)
    IN CASE m.type = "DrawFromStock" -> Len(b.stock) > 0
         [] m.type = "ResetStock" -> Len(b.waste) > 0
         [] m.type = "WasteToFoundation" ->
                Len(b.waste) > 0 /\ foundation_ok(m.foundation_index)
         [] m.type = "WasteToTableau" ->
                Len(b.waste) > 0 /\ tableau_ok(m.tableau_index)
         [] m.type \in {"TableauToFoundation", "TableauToFoundationAndReveal"} ->
                /\ tableau_ok(m.source_tableau_index)
                /\ foundation_ok(m.foundation_index)
                /\ Len(b.tableau_piles[m.source_tableau_index + 1].cards) > 0
         [] m.type = "FoundationToTableau" ->
                /\ foundation_ok(m.source_foundation_index)
                /\ tableau_ok(m.dest_tableau_index)
                /\ Len(b.foundations[m.source_foundation_index + 1].cards) > 0
         [] m.type \in {"TableauToTableau", "TableauToTableauAndReveal"} ->
                /\ tableau_ok(m.source_tableau_index)
                /\ tableau_ok(m.dest_tableau_index)
                /\ 1 <= m.num_cards
                /\ m.num_cards <= Len(b.tableau_piles[m.source_tableau_index + 1].cards)

\* C4: on every reachable board, executing any move of get_legal_moves()
\* pops no empty pile and uses no index out of range, and a stack move has
\* 1 <= num_cards <= the face-up cards of its source; no execute has raised.
C4_ExecutionNeverFails ==
    /\ ~raised
    /\ \A legal_moves \in {get_legal_moves(board)} :
       \A n \in 1..Len(legal_moves) :
           /\ Executable(board, legal_moves[n])
           /\ ~execute_move(board, legal_moves[n]).raised

\* C4 witness: a stack of two or more cards has been moved without a raise,
\* and the board offers moves from the waste, from a tableau to a
\* foundation and from a foundation.
C4_Witness ==
    /\ ~raised
    /\ last_move.type \in {"TableauToTableau", "TableauToTableauAndReveal"}
    /\ last_move.num_cards >= 2
    /\ LET types == {m.type : m \in ToSet(get_legal_moves(board))} IN
       /\ "WasteToTableau" \in types
       /\ "FoundationToTableau" \in types
       /\ types \cap {"TableauToFoundation", "TableauToFoundationAndReveal"} # {}

\* the foundation index whose suit is the card's
SuitFoundation(b, card) ==
    CHOOSE f \in 0..3 : b.foundations[f + 1].suit = card.suit

\* the move of the top card of tableau i to its suit's foundation, as the
\* reveal variant exactly when it takes the last face-up card off hidden ones
TopToFoundation(b, i) ==
    LET pile == b.tableau_piles[i + 1]
        card == pile.cards[Len(pile.cards)]
    IN [type |-> IF Len(pile.cards) = 1 /\ Len(pile.face_down_cards) > 0
                 THEN "TableauToFoundationAndReveal"
                 ELSE "TableauToFoundation",
        source_tableau_index |-> i,
        foundation_index |-> SuitFoundation(b, card),
        card |-> card]

\* the move of the top n face-up cards of tableau i onto tableau j, as the
\* reveal variant exactly when it takes all face-up cards off hidden ones
RunToTableau(b, i, j, n) ==
    LET pile == b.tableau_piles[i + 1]
    IN [type |-> IF n = Len(pile.cards) /\ Len(pile.face_down_cards) > 0
                 THEN "TableauToTableauAndReveal"
                 ELSE "TableauToTableau",
        source_tableau_index |-> i,
        dest_tableau_index |-> j,
        num_cards |-> n,
        card |-> pile.cards[Len(pile.cards) - n + 1]]

\* the pruning rule: a run led by a rank-13 card is not moved to an empty
\* tableau j when that reveals nothing, or when a lower-indexed empty
\* tableau other than the source already takes it
Pruned(b, i, j, n) ==
    LET pile == b.tableau_piles[i + 1]
        led_by == pile.cards[Len(pile.cards) - n + 1]
        reveals == n = Len(pile.cards) /\ Len(pile.face_down_cards) > 0
    IN /\ led_by.rank = 13
       /\ Len(b.tableau_piles[j + 1].cards) = 0
       /\ \/ ~reveals
          \/ \E lower \in 0..(j - 1) :
                 lower # i /\ Len(b.tableau_piles[lower + 1].cards) = 0

\* the rule set (a)-(f) of the legal moves
RuleSet(b) ==
    LET tableaus == 0..(Len(b.tableau_piles) - 1)
        waste_top == b.waste[Len(b.waste)]
    IN  \* (a) the draw or the reset move
        (IF Len(b.stock) > 0 THEN {[type |-> "DrawFromStock"]}
         ELSE IF Len(b.waste) > 0 THEN {[type |-> "ResetStock"]}
         ELSE {})
        \* (b) waste top to its suit's foundation
        \cup {[type |-> "WasteToFoundation", foundation_index |-> f, card |-> waste_top] :
                 f \in {f \in 0..3 :
                           /\ Len(b.waste) > 0
                           /\ f = SuitFoundation(b, waste_top)
                           /\ Foundation_can_add_card(b.foundations[f + 1], waste_top)}}
        \* (c) waste top to every accepting tableau
        \cup {[type |-> "WasteToTableau", tableau_index |-> j, card |-> waste_top] :
                 j \in {j \in tableaus :
                           /\ Len(b.waste) > 0
                           /\ Tableau_can_add_card(b.tableau_piles[j + 1], waste_top)}}
        \* (d) each tableau top to its suit's foundation
        \cup {TopToFoundation(b, i) :
                 i \in {i \in tableaus :
                           LET cards == b.tableau_piles[i + 1].cards IN
                           /\ Len(cards) > 0
                           /\ Foundation_can_add_card(
                                  b.foundations[SuitFoundation(b, cards[Len(cards)]) + 1],
                                  cards[Len(cards)])}}
        \* (e) each face-up suffix of tableau i to every other accepting
        \* tableau j, except the pruned rank-13-to-empty moves
        \cup UNION {UNION {{RunToTableau(b, i, j, n) :
                                j \in {j \in tableaus :
                                          LET cards == b.tableau_piles[i + 1].cards IN
                                          /\ i # j
                                          /\ Tableau_can_add_card(
                                                 b.tableau_piles[j + 1],
                                                 cards[Len(cards) - n + 1])
                                          /\ ~Pruned(b, i, j, n)}} :
                            n \in 1..Len(b.tableau_piles[i + 1].cards)} :
                     i \in tableaus}
        \* (f) each foundation top to every accepting tableau
        \cup {[type |-> "FoundationToTableau", source_foundation_index |-> x[1],
               dest_tableau_index |-> x[2],
               card |-> b.foundations[x[1] + 1].cards[Len(b.foundations[x[1] + 1].cards)]] :
                 x \in {x \in (0..3) \X tableaus :
                           LET cards == b.foundations[x[1] + 1].cards IN
                           /\ Len(cards) > 0
                           /\ Tableau_can_add_card(b.tableau_piles[x[2] + 1],
                                                   cards[Len(cards)])}}

\* C5: on every reachable board the list of get_legal_moves() has no move
\* twice and holds exactly the moves of the rule set: the draw or reset
\* move, the waste top to its foundation and to each accepting tableau, each
\* tableau top to its foundation, each face-up suffix to each other
\* accepting tableau except the pruned king-to-empty moves, and each
\* foundation top to each accepting tableau.
C5_EnumerationIsRuleSet ==
    \A legal_moves \in {get_legal_moves(board)} :
        /\ Cardinality(ToSet(legal_moves)) = Len(legal_moves)
        /\ ToSet(legal_moves) = RuleSet(board)

\* C5 witness: a board whose legal moves come from the stock, the waste, a
\* tableau top, a run of two or more cards and a foundation, and on which
\* the pruning rule removes a king-to-empty move.
C5_Witness ==
    LET legal_moves == ToSet(get_legal_moves(board))
        types == {m.type : m \in legal_moves}
        tableaus == 0..(Len(board.tableau_piles) - 1)
    IN /\ {"DrawFromStock", "WasteToTableau", "FoundationToTableau"} \subseteq types
       /\ types \cap {"TableauToFoundation", "TableauToFoundationAndReveal"} # {}
       /\ \E m \in legal_moves :
              /\ m.type \in {"TableauToTableau", "TableauToTableauAndReveal"}
              /\ m.num_cards >= 2
       /\ \E i, j \in tableaus :
              /\ i # j
              /\ Len(board.tableau_piles[i + 1].cards) > 0
              /\ Pruned(board, i, j, Len(board.tableau_piles[i + 1].cards))

\* the tableaus other than i without face-up cards
EmptyTableaus(b, i) ==
    {j \in 0..(Len(b.tableau_piles) - 1) :
        j # i /\ Len(b.tableau_piles[j + 1].cards) = 0}

\* tableau i shows a run led by a rank-13 card
ShowsKingRun(b, i) ==
    /\ Len(b.tableau_piles[i + 1].cards) > 0
    /\ b.tableau_piles[i + 1].cards[1].rank = 13

\* the places in the list of legal moves of the tableau-to-tableau moves of
\* the whole face-up run of tableau i into an empty tableau
KingRunToEmpty(legal_moves, b, i) ==
    {n \in 1..Len(legal_moves) :
        /\ legal_moves[n].type \in {"TableauToTableau", "TableauToTableauAndReveal"}
        /\ legal_moves[n].source_tableau_index = i
        /\ legal_moves[n].num_cards = Len(b.tableau_piles[i + 1].cards)
        /\ legal_moves[n].dest_tableau_index \in EmptyTableaus(b, i)}

\* C7: for a run led by a rank-13 card with one to six empty tableaus
\* available, get_legal_moves() holds no tableau-to-tableau move of that run
\* into an empty tableau when the source has no hidden cards, and exactly
\* one, a reveal move into the lowest-indexed empty tableau, when the source
\* has hidden cards.
C7_KingToEmptyPruning ==
    \A legal_moves \in {get_legal_moves(board)} :
    \A i \in 0..(Len(board.tableau_piles) - 1) :
        (ShowsKingRun(board, i) /\ EmptyTableaus(board, i) # {}) =>
            LET found == KingRunToEmpty(legal_moves, board, i)
                lowest == CHOOSE j \in EmptyTableaus(board, i) :
                              \A j2 \in EmptyTableaus(board, i) : j <= j2
            IN IF Len(board.tableau_piles[i + 1].face_down_cards) = 0
               THEN found = {}
               ELSE /\ Cardinality(found) = 1
                    /\ \A n \in found :
                           /\ legal_moves[n].type = "TableauToTableauAndReveal"
                           /\ legal_moves[n].dest_tableau_index = lowest

\* C7 witness: a board with a king-led run over hidden cards and two or more
\* empty tableaus, and a king-led run over no hidden cards.
C7_Witness ==
    /\ \E i \in 0..(Len(board.tableau_piles) - 1) :
           /\ ShowsKingRun(board, i)
           /\ Len(board.tableau_piles[i + 1].face_down_cards) > 0
           /\ Cardinality(EmptyTableaus(board, i)) >= 2
           /\ Cardinality(KingRunToEmpty(get_legal_moves(board), board, i)) = 1
    /\ \E i \in 0..(Len(board.tableau_piles) - 1) :
           /\ ShowsKingRun(board, i)
           /\ Len(board.tableau_piles[i + 1].face_down_cards) = 0
           /\ EmptyTableaus(board, i) # {}

\* C8: on every reachable board get_legal_moves() holds DrawFromStock exactly
\* once if the stock is non-empty and not at all otherwise, and ResetStock
\* exactly once if the stock is empty and the waste is not, and not at all
\* otherwise; it never holds both.
C8_DrawResetLegality ==
    \A legal_moves \in {get_legal_moves(board)} :
        LET draws == Count(legal_moves, [type |-> "DrawFromStock"])
            resets == Count(legal_moves, [type |-> "ResetStock"])
        IN /\ draws = (IF Len(board.stock) > 0 THEN 1 ELSE 0)
           /\ resets = (IF Len(board.stock) = 0 /\ Len(board.waste) > 0 THEN 1 ELSE 0)
           /\ ~(draws > 0 /\ resets > 0)

\* C8 witness: the last card of the stock has just been drawn: the stock is
\* empty, the waste is not, and the reset is the move on offer.
C8_Witness ==
    /\ last_move = [type |-> "DrawFromStock"]
    /\ Len(board.stock) = 0
    /\ Len(board.waste) > 0
    /\ Count(get_legal_moves(board), [type |-> "ResetStock"]) = 1

\* a list in reverse order
Reverse(list) == [n \in 1..Len(list) |-> list[Len(list) - n + 1]]

\* C9: executing ResetStock on a board with an empty stock and waste w leaves
\* the stock equal to w reversed (the drawing order is restored) and the
\* waste empty, and changes no foundation and no tableau.
C9_ResetStockEffect ==
    [][(/\ IsSetUp
        /\ last_move' = [type |-> "ResetStock"]
        /\ Len(board.stock) = 0)
       => /\ board'.stock = Reverse(board.waste)
          /\ board'.waste = <<>>
          /\ board'.foundations = board.foundations
          /\ board'.tableau_piles = board.tableau_piles]_vars

\* C9 witness: ResetStock has just been executed on a waste of two or more
\* cards, which are now the stock.
C9_Witness ==
    /\ last_move = [type |-> "ResetStock"]
    /\ Len(board.stock) >= 2
    /\ board.stock[1] # board.stock[Len(board.stock)]
    /\ board.waste = <<>>

\* the move takes every face-up card of tableau t (counted from 0)
EmptiesVisible(b, m, t) ==
    \/ /\ m.type \in {"TableauToFoundation", "TableauToFoundationAndReveal"}
       /\ m.source_tableau_index = t
       /\ Len(b.tableau_piles[t + 1].cards) = 1
    \/ /\ m.type \in {"TableauToTableau", "TableauToTableauAndReveal"}
       /\ m.source_tableau_index = t
       /\ m.num_cards = Len(b.tableau_piles[t + 1].cards)

\* C10: in every step of play each tableau's hidden cards stay as they are or
\* lose exactly their last card; they lose it only when the move took every
\* face-up card of that tableau, and the card lost is then the tableau's one
\* face-up card.  The number of hidden cards never grows.
C10_HiddenOnlyShrinkByReveal ==
    [][IsSetUp =>
          \A t \in 1..Len(board.tableau_piles) :
              LET hidden == board.tableau_piles[t].face_down_cards
                  after == board'.tableau_piles[t]
              IN /\ Len(after.face_down_cards) <= Len(hidden)
                 /\ \/ after.face_down_cards = hidden
                    \/ /\ Len(hidden) > 0
                       /\ after.face_down_cards = SubSeq(hidden, 1, Len(hidden) - 1)
                       /\ EmptiesVisible(board, last_move', t - 1)
                       /\ after.cards = <<hidden[Len(hidden)]>>]_vars

\* C10 witness: a reveal move has just flipped the last hidden card but one
\* of its source tableau, which now shows exactly that card.
C10_Witness ==
    /\ last_move.type \in {"TableauToFoundationAndReveal", "TableauToTableauAndReveal"}
    /\ Len(board.tableau_piles[last_move.source_tableau_index + 1].cards) = 1
    /\ Len(board.tableau_piles[last_move.source_tableau_index + 1].face_down_cards) >= 1

\* the moves whose source is a tableau
TableauOrigin ==
    {"TableauToFoundation", "TableauToFoundationAndReveal",
     "TableauToTableau", "TableauToTableauAndReveal"}

\* the and-reveal variants
AndReveal == {"TableauToFoundationAndReveal", "TableauToTableauAndReveal"}

\* the hidden cards of all tableaus of a board, tableau after tableau
HiddenCards(b) ==
    Flatten([t \in 1..Len(b.tableau_piles) |-> b.tableau_piles[t].face_down_cards])

\* a tableau without face-up cards over hidden cards: flip_top_card would
\* flip one
CouldBeFlipped(tableau) ==
    Len(tableau.cards) = 0 /\ Len(tableau.face_down_cards) > 0

\* C11: get_legal_moves() gives a move from a tableau as its and-reveal
\* variant exactly when the move takes every face-up card of the source and
\* the source has a hidden card, and as the plain variant otherwise;
\* executing an enumerated and-reveal move flips exactly one hidden card,
\* and executing an enumerated plain move leaves no tableau that could have
\* been flipped.
C11_RevealClassification ==
    \A legal_moves \in {get_legal_moves(board)} :
    \A n \in 1..Len(legal_moves) :
        legal_moves[n].type \in TableauOrigin =>
            LET m == legal_moves[n]
                t == m.source_tableau_index
                source == board.tableau_piles[t + 1]
            IN \A after \in {execute_move(board, m).board} :
               /\ m.type \in AndReveal <=>
                      /\ EmptiesVisible(board, m, t)
                      /\ Len(source.face_down_cards) > 0
               /\ m.type \in AndReveal =>
                      /\ Len(HiddenCards(after)) = Len(HiddenCards(board)) - 1
                      /\ Len(after.tableau_piles[t + 1].face_down_cards)
                             = Len(source.face_down_cards) - 1
                      /\ after.tableau_piles[t + 1].cards
                             = <<source.face_down_cards[Len(source.face_down_cards)]>>
               /\ m.type \notin AndReveal =>
                      \A t2 \in 1..Len(after.tableau_piles) :
                          ~CouldBeFlipped(after.tableau_piles[t2])

\* C11 witness: the board offers a run of two or more cards as an
\* and-reveal move, a plain move of a top card off a longer run over hidden
\* cards, and a move of a tableau's only face-up card to a foundation.
C11_Witness ==
    \A legal_moves \in {ToSet(get_legal_moves(board))} :
        /\ \E m \in legal_moves :
               m.type = "TableauToTableauAndReveal" /\ m.num_cards >= 2
        /\ \E m \in legal_moves :
               /\ m.type = "TableauToTableau"
               /\ m.num_cards < Len(board.tableau_piles[m.source_tableau_index + 1].cards)
               /\ Len(board.tableau_piles[m.source_tableau_index + 1].face_down_cards) > 0
        /\ \E m \in legal_moves :
               m.type \in {"TableauToFoundation", "TableauToFoundationAndReveal"}

\* play_game is in a turn that gets as far as computing the moves to offer
TurnOffersMoves ==
    game.pc = "playing" /\ ~is_win(board) /\ board.move_count < MAX_MOVES

\* the legal moves whose resulting fingerprint is not in the seen set, in
\* the order of get_legal_moves(), or all legal moves when there is none
Offered(b) ==
    LET LeadsToUnseen(m) ==
            get_state_hash(execute_move(b, m).board) \notin b.state_history
        unseen == SelectSeq(get_legal_moves(b), LeadsToUnseen)
    IN IF unseen # <<>> THEN unseen ELSE get_legal_moves(b)

\* C12: in every turn of play_game the list offered to the player (or
\* executed automatically) is exactly the sublist of get_legal_moves() of
\* the moves whose resulting fingerprint is not in the seen set if that
\* sublist is non-empty, and the whole list otherwise; the move played is
\* one of the list, and the board moves into an already-seen fingerprint
\* only in a turn where every legal move leads to one.
C12_CycleAvoidance ==
    [][TurnOffersMoves =>
          \A offered \in {Offered(board)} :
              /\ game'.moves_to_consider = offered
              /\ board' # board =>
                     /\ \E n \in 1..Len(offered) : last_move' = offered[n]
                     /\ get_state_hash(board') \in board.state_history =>
                            offered = get_legal_moves(board)]_vars

\* C12 witness: the game has moved into an already-seen fingerprint (the
\* seen set is smaller than the number of boards the game has been in), in a
\* turn that offered two moves or more.
C12_Witness ==
    /\ game.pc = "playing"
    /\ Cardinality(board.state_history) <= board.move_count
    /\ Len(game.moves_to_consider) >= 2
    /\ last_move # NoMove

\* C13: for a board prepared by setup() or setup_random_scenario(n) and
\* driven by play_game, at the start of every turn the seen set holds the
\* fingerprint of the current board; it starts as the fingerprint of the
\* prepared board alone and each executed move adds exactly the fingerprint
\* of the board it produced (so it holds every state the game has been in
\* and no fingerprint of a candidate that was not chosen), and its size is at
\* most move_count + 1.
C13_SeenSet ==
    /\ [](game.pc # "none" /\ ~raised =>
             /\ get_state_hash(board) \in board.state_history
             /\ Cardinality(board.state_history) <= board.move_count + 1)
    /\ [][/\ game.pc = "none" /\ game'.pc # "none" =>
                 board'.state_history = {get_state_hash(board')}
          /\ game.pc # "none" /\ ~raised' =>
                 board'.state_history =
                     IF last_move' # last_move \/ board'.move_count # board.move_count
                     THEN board.state_history \cup {get_state_hash(board')}
                     ELSE board.state_history]_vars

\* C13 witness: a game is at the start of a turn after three moves or more,
\* the last of them chosen among several candidates, and the seen set holds
\* one fingerprint per state the game has been in.
C13_Witness ==
    /\ game.pc = "playing"
    /\ board.move_count >= 3
    /\ Len(game.moves_to_consider) >= 2
    /\ Cardinality(board.state_history) = board.move_count + 1

\* one move has just been executed on both boards of a pair with one
\* fingerprint
TwinsMove ==
    /\ twin # NewBoard
    /\ get_state_hash(board) = get_state_hash(twin)
    /\ board'.move_count = board.move_count + 1

\* the hidden card an and-reveal move turns face up on a board, None for the
\* other moves
TurnedUp(b, m) ==
    IF m.type \in AndReveal
    THEN top_card(b.tableau_piles[m.source_tableau_index + 1].face_down_cards)
    ELSE None

DifferInWasteOrder(b1, b2) ==
    /\ b1.waste # b2.waste
    /\ [b1 EXCEPT !.waste = b2.waste] = b2
    /\ Len(b1.waste) = Len(b2.waste)
    /\ ToSet(b1.waste) = ToSet(b2.waste)

\* two boards differ in the visible sequence of one tableau only
DifferInVisible(b1, b2) ==
    /\ b1 # b2
    /\ \E p \in 1..Len(b1.tableau_piles) :
           [b1 EXCEPT !.tableau_piles[p].cards = b2.tableau_piles[p].cards] = b2

\* two boards differ in the cards of one foundation below its top card only
DifferBelowTop(b1, b2) ==
    /\ b1 # b2
    /\ \E f \in 1..Len(b1.foundations) :
           /\ [b1 EXCEPT !.foundations[f].cards = b2.foundations[f].cards] = b2
           /\ top_card(b1.foundations[f].cards) = top_card(b2.foundations[f].cards)

\* two boards agree in what the fingerprint is said to cover
AgreeInCovered(b1, b2) ==
    /\ b1.stock = b2.stock
    /\ b1.waste = b2.waste
    /\ \A f \in 1..Len(b1.foundations) :
           top_card(b1.foundations[f].cards) = top_card(b2.foundations[f].cards)
    /\ Len(b1.tableau_piles) = Len(b2.tableau_piles)
    /\ \A p \in 1..Len(b1.tableau_piles) :
           /\ Len(b1.tableau_piles[p].face_down_cards)
                  = Len(b2.tableau_piles[p].face_down_cards)
           /\ b1.tableau_piles[p].cards = b2.tableau_piles[p].cards

\* C15: two boards that differ only in the order of the waste pile's cards,
\* or only in the visible sequence of a tableau, have different
\* fingerprints; two boards that differ only in a foundation's cards below
\* its top card have equal fingerprints; two boards have equal fingerprints
\* exactly when they agree in the stock and waste sequences, in each
\* foundation's top card, and per tableau in the hidden count and the visible
\* sequence.
C15_FingerprintSensitivity ==
    twin # NewBoard =>
        /\ DifferInWasteOrder(board, twin) =>
               get_state_hash(board) # get_state_hash(twin)
        /\ DifferInVisible(board, twin) =>
               get_state_hash(board) # get_state_hash(twin)
        /\ DifferBelowTop(board, twin) =>
               get_state_hash(board) = get_state_hash(twin)
        /\ get_state_hash(board) = get_state_hash(twin) <=>
               AgreeInCovered(board, twin)

\* C15 witness: the second board differs from the first only in a
\* foundation's cards below its top card.
C15_Witness ==
    /\ twin # NewBoard
    /\ DifferBelowTop(board, twin)

\* the second board differs from the first only in the order of the waste
\* pile's cards
C15_WitnessWaste ==
    /\ twin # NewBoard
    /\ DifferInWasteOrder(board, twin)

\* the second board differs from the first only in the visible sequence of a
\* tableau that shows two cards or more
C15_WitnessVisible ==
    /\ twin # NewBoard
    /\ DifferInVisible(board, twin)
    /\ \E p \in 1..Len(board.tableau_piles) :
           /\ board.tableau_piles[p].cards # twin.tableau_piles[p].cards
           /\ Len(twin.tableau_piles[p].cards) >= 2

\* C16 as stated: every board, one that was constructed but never set up
\* included, is won exactly when the total count of hidden cards across its
\* tableaus is at most 2.
C16_WonIffFewHidden ==
    is_win(board) <=> Len(HiddenCards(board)) <= 2

\* C16, amended: a board that has tableaus is won exactly when the total
\* count of hidden cards across them is at most 2 (won at 0, 1 and 2, not won
\* at 3 or more); a board that was constructed but never set up has no
\* tableaus and is not won.
C16_WonIffSetUpAndFewHidden ==
    /\ IsSetUp => (is_win(board) <=> Len(HiddenCards(board)) <= 2)
    /\ ~IsSetUp => ~is_win(board)

\* C16 witness: an and-reveal move has just turned up the third last hidden
\* card of the board, which is won with exactly 2 hidden cards.
C16_Witness ==
    /\ last_move.type \in AndReveal
    /\ Len(HiddenCards(board)) = 2
    /\ is_win(board)

\* a board that is set up has exactly 3 hidden cards
C16_WitnessThree ==
    IsSetUp /\ Len(HiddenCards(board)) = 3

\* C17 as stated: whenever the move counter has reached 999, play_game
\* returns False and executes no further move, whatever the board looks like
\* after the 999th move.
C17_CapIsLoss ==
    /\ [](board.move_count >= MAX_MOVES /\ game.pc = "returned" => ~game.result)
    /\ [][board.move_count >= MAX_MOVES /\ game.pc = "playing" =>
              /\ game'.pc = "returned"
              /\ board' = board]_vars

\* C17, amended: whenever the move counter has reached 999, play_game
\* returns and executes no further move; it returns False if the board is
\* not won after the 999th move, and True if it is won.
C17_CapEndsGame ==
    /\ [](board.move_count >= MAX_MOVES /\ game.pc = "returned" =>
              game.result = is_win(board))
    /\ [][board.move_count >= MAX_MOVES /\ game.pc = "playing" =>
              /\ game'.pc = "returned"
              /\ board' = board]_vars

\* C17 witness: play_game has returned False after the 999th move, the board
\* not being won.
C17_Witness ==
    /\ game.pc = "returned"
    /\ board.move_count = MAX_MOVES
    /\ ~is_win(board)
    /\ ~game.result

\* play_game has returned True after the 999th move
C17_WonAtCap ==
    /\ game.pc = "returned"
    /\ board.move_count = MAX_MOVES
    /\ game.result

\* play_game returns in this step
Returns == game.pc = "playing" /\ game'.pc = "returned"

\* the player of the game may decline to pick a move in this turn: it is a
\* HumanPlayer, and the move is not executed automatically
MayQuit ==
    /\ game.player = "HumanPlayer"
    /\ ~(game.interactive /\ Len(Offered(board)) = 1)

\* C18: play_game returns True only if the board is won when it returns (a
\* board already won on entry included), and returns False in each non-win
\* ending: no move to consider, the player returning None, and the cap
\* reached with the board not won; there is no other ending, and in the
\* non-win endings the board is left as it was at the start of the final
\* turn.
C18_GameOutcome ==
    /\ [](game.pc = "returned" => (game.result <=> is_win(board)))
    /\ [][/\ Returns =>
                 /\ board' = board
                 /\ game'.result = is_win(board)
                 /\ ~is_win(board) =>
                        \/ board.move_count >= MAX_MOVES
                        \/ Len(get_legal_moves(board)) = 0
                        \/ MayQuit
          /\ (/\ game.pc = "playing"
              /\ ~is_win(board)
              /\ \/ board.move_count >= MAX_MOVES
                 \/ Len(get_legal_moves(board)) = 0) =>
                 /\ Returns
                 /\ ~game'.result]_vars

\* C18 witness: play_game has returned False after some moves because the
\* board, not won and below the cap, has no legal move.
C18_Witness ==
    /\ game.pc = "returned"
    /\ ~game.result
    /\ game.played > 0
    /\ board.move_count < MAX_MOVES
    /\ Len(get_legal_moves(board)) = 0

\* play_game has returned True for a board already won on entry
C18_WonOnEntry ==
    game.pc = "returned" /\ game.result /\ game.played = 0

\* play_game has returned False because the player returned None
C18_Quit ==
    /\ game.pc = "returned"
    /\ ~game.result
    /\ board.move_count < MAX_MOVES
    /\ Len(get_legal_moves(board)) > 0

\* play_game has returned True after some moves
C18_WonByPlay ==
    game.pc = "returned" /\ game.result /\ game.played > 0

\* C19: from a board prepared by setup() or setup_random_scenario(n), and
\* provided every player call returns, play_game eventually returns, after
\* executing at most 999 moves on the board.
C19_Termination ==
    /\ game.pc = "playing" ~> game.pc = "returned"
    /\ [](game.pc # "none" => game.played <= MAX_MOVES)

\* C19 witness: play_game has returned after 999 moves, the last of them
\* executed in a turn where every legal move led to an already-seen
\* fingerprint.
C19_Witness ==
    /\ game.pc = "returned"
    /\ game.played = MAX_MOVES
    /\ Cardinality(board.state_history) < MAX_MOVES

\* the piles of a board: all of it but the move counter and the seen set
Piles(b) ==
    <<b.stock, b.waste, b.foundations, b.tableau_piles>>

\* C20: executing a legal move of any variant increases move_count by
\* exactly one; a turn of play_game either leaves the board as it was or
\* leaves it as one execution of the selected move makes it (the piles that
\* execution gives, one move more, the seen set with the one new
\* fingerprint), the speculative executions leaving no trace; so move_count
\* equals the number of moves played since setup and never exceeds 999.
C20_MoveCounter ==
    /\ [](game.pc # "none" /\ ~raised =>
              /\ board.move_count = game.played
              /\ board.move_count <= MAX_MOVES
              /\ \A legal_moves \in {get_legal_moves(board)} :
                     \A n \in 1..Len(legal_moves) :
                         execute_move(board, legal_moves[n]).board.move_count
                             = board.move_count + 1)
    /\ [][game.pc = "playing" =>
              \/ board' = board
              \/ /\ Piles(board') = Piles(execute(board, last_move').board)
                 /\ board'.move_count = board.move_count + 1
                 /\ board'.state_history =
                        board.state_history \cup {get_state_hash(board')}]_vars

\* C20 witness: a game is in play after two moves or more, the last of them
\* a move from a foundation back to a tableau chosen among several
\* candidates.
C20_Witness ==
    /\ game.pc = "playing"
    /\ game.played >= 2
    /\ Len(game.moves_to_consider) >= 2
    /\ last_move.type = "FoundationToTableau"

\* the board has just been prepared: no move has been executed on it since
JustPrepared == last_move = NoMove /\ ~raised

\* C21: after setup() on a freshly constructed board there are exactly 7
\* tableaus, tableau i (i = 0..6) has exactly i hidden cards and exactly 1
\* visible card, the stock holds the remaining 24 cards, the waste and the
\* four foundations are empty, move_count is 0, and the seen set is exactly
\* {fingerprint of the dealt board}.
C21_FullDeal ==
    prepared_by = BySetup /\ JustPrepared =>
        /\ Len(board.tableau_piles) = 7
        /\ \A i \in 0..6 :
               /\ Len(board.tableau_piles[i + 1].face_down_cards) = i
               /\ Len(board.tableau_piles[i + 1].cards) = 1
        /\ Len(board.stock) = 24
        /\ ToSet(board.stock) =
               ToSet(NewDeck) \ UNION {ToSet(board.tableau_piles[p].face_down_cards)
                                           \cup ToSet(board.tableau_piles[p].cards) :
                                       p \in 1..7}
        /\ board.waste = <<>>
        /\ \A f \in 1..4 : board.foundations[f].cards = <<>>
        /\ board.move_count = 0
        /\ board.state_history = {get_state_hash(board)}

\* C21 witness: setup() has just dealt a freshly constructed board.
C21_Witness ==
    /\ prepared_by = BySetup
    /\ JustPrepared
    /\ IsSetUp
    /\ board.move_count = 0

\* setup_random_scenario(number_of_cards) has just returned
JustScenario ==
    /\ prepared_by.op = "setup_random_scenario"
    /\ JustPrepared

\* C22: after setup_random_scenario(n) returns, for every n with
\* 0 <= n <= 45 and every shuffle and distribution, the board has exactly n
\* face-down cards in total across the seven tableaus.
C22_ScenarioHiddenCount ==
    JustScenario => Len(HiddenCards(board)) = prepared_by.number_of_cards

\* C23: setup_random_scenario(0) yields an immediately won board, for every
\* shuffle: the board has 7 tableaus with no hidden card and is_win() is
\* true; play_game on it executes no move, and when it returns it returns
\* True.
C23_ScenarioZeroIsWon ==
    prepared_by = ByScenario(0) =>
        /\ Len(board.tableau_piles) = 7
        /\ HiddenCards(board) = <<>>
        /\ is_win(board)
        /\ board.move_count = 0
        /\ last_move = NoMove
        /\ ~raised
        /\ game.pc \in {"playing", "returned"}
        /\ game.played = 0
        /\ game.pc = "returned" => game.result

C23_Witness ==
    /\ prepared_by = ByScenario(0)
    /\ game.pc = "returned"
    /\ game.result
    /\ board.move_count = 0
    /\ is_win(board)

\* this step is a call of setup_random_scenario
ScenarioCalled ==
    /\ ~raised
    /\ prepared_by' # prepared_by
    /\ prepared_by'.op = "setup_random_scenario"

\* C24: setup_random_scenario(n) with n < 0 or n > 45 raises a ValueError
\* and leaves the board's piles, move counter and seen set exactly as they
\* were before the call, while every n in 0..45 is accepted.
C24_InvalidScenarioLeavesBoard ==
    [][ScenarioCalled =>
           IF prepared_by'.number_of_cards < 0 \/ prepared_by'.number_of_cards > 45
           THEN raised' /\ board' = board
           ELSE ~raised']_vars

\* the visible cards of all tableaus, in pile order
VisibleCards(b) ==
    Flatten([t \in 1..Len(b.tableau_piles) |-> b.tableau_piles[t].cards])

\* C29: setup() may be called on any board, including one that was already
\* dealt or played: when it returns, the board holds exactly 52 distinct
\* cards (28 in the tableaus, 24 in the stock, empty waste and empty
\* foundations), move_count is 0 and the seen set holds only the new position.
C29_Redeal ==
    prepared_by.op = "setup" /\ JustPrepared =>
        \A all \in {CardsOnBoard(board)} :
            /\ Len(all) = 52
            /\ \A c \in StandardCards : Count(all, c) = 1
            /\ Len(HiddenCards(board)) + Len(VisibleCards(board)) = 28
            /\ Len(board.stock) = 24
            /\ board.waste = <<>>
            /\ \A f \in 1..4 : board.foundations[f].cards = <<>>
            /\ board.move_count = 0
            /\ board.state_history = {get_state_hash(board)}

\* this step executes an enumerated legal move on a set-up board
MoveExecuted ==
    /\ IsSetUp
    /\ ~raised
    /\ board' # board
    /\ board'.move_count = board.move_count + 1

\* C25: along any sequence of enumerated legal moves from a set-up board,
\* the number of cards on each foundation never decreases.
C25_FoundationsOnlyGrow ==
    [][MoveExecuted =>
           \A f \in 1..4 :
               Len(board'.foundations[f].cards) >= Len(board.foundations[f].cards)]_vars

\* C25, amended: the number of cards on a foundation decreases only by a
\* FoundationToTableau move, which takes exactly the top card of its source
\* foundation; every other move, and that move on the other foundations,
\* leaves a foundation as it was or adds one card on top of it.
C25_FoundationsShrinkOnlyByReturn ==
    [][MoveExecuted =>
           \A f \in 1..4 :
               \A before \in {board.foundations[f].cards},
                  after \in {board'.foundations[f].cards} :
                   IF /\ last_move'.type = "FoundationToTableau"
                      /\ f = last_move'.source_foundation_index + 1
                   THEN /\ Len(before) > 0
                        /\ after = SubSeq(before, 1, Len(before) - 1)
                   ELSE \/ after = before
                        \/ /\ Len(after) = Len(before) + 1
                           /\ SubSeq(after, 1, Len(before)) = before]_vars

\* a card has just come back from a foundation that still holds cards
C25_Witness ==
    /\ IsSetUp
    /\ ~raised
    /\ last_move.type = "FoundationToTableau"
    /\ board.foundations[last_move.source_foundation_index + 1].cards # <<>>

\* C26: for any two boards reached from the same prepared board by
\* enumerated legal moves, equal fingerprints imply identical pile contents
\* everywhere: the full stock and waste, the complete contents of every
\* foundation, and the hidden and the visible sequence of every tableau.
C26_FingerprintExactInGame ==
    twin # NewBoard /\ ~raised /\ get_state_hash(board) = get_state_hash(twin) =>
        /\ board.stock = twin.stock
        /\ board.waste = twin.waste
        /\ \A f \in 1..4 : board.foundations[f].cards = twin.foundations[f].cards
        /\ \A t \in 1..7 :
               /\ board.tableau_piles[t].face_down_cards
                      = twin.tableau_piles[t].face_down_cards
               /\ board.tableau_piles[t].cards = twin.tableau_piles[t].cards
        /\ Piles(board) = Piles(twin)

\* two boards of one game with one fingerprint, reached by different numbers
\* of moves
C26_Witness ==
    /\ twin # NewBoard
    /\ ~raised
    /\ get_state_hash(board) = get_state_hash(twin)
    /\ board.move_count > twin.move_count

\* two boards of one game with one fingerprint, one of them after a
\* foundation gave its top card to a tableau and took it back
C26_WitnessReturn ==
    /\ twin # NewBoard
    /\ ~raised
    /\ get_state_hash(board) = get_state_hash(twin)
    /\ board.move_count = twin.move_count + 2
    /\ last_move.type = "TableauToFoundation"

\* C27: in every board reached from setup() or setup_random_scenario(n) by
\* enumerated legal moves, every tableau that has at least one hidden card
\* also has at least one visible card; so a tableau that
\* Tableau.can_add_card treats as empty (no visible card, it accepts a
\* rank-13 card) has no hidden card beneath it.
C27_NoBuriedColumn ==
    IsSetUp /\ ~raised =>
        \A t \in 1..Len(board.tableau_piles) :
            \A tableau \in {board.tableau_piles[t]} :
                /\ Len(tableau.face_down_cards) > 0 => Len(tableau.cards) > 0
                /\ ~CouldBeFlipped(tableau)
                /\ Len(tableau.cards) = 0 =>
                       /\ tableau.face_down_cards = <<>>
                       /\ \A s \in {"HEARTS", "DIAMONDS", "CLUBS", "SPADES"} :
                              Tableau_can_add_card(tableau, Card(KING, s))

\* a column was emptied of its visible cards by a move and its top hidden
\* card was turned up, and another column is empty
C27_Witness ==
    /\ IsSetUp
    /\ ~raised
    /\ last_move.type \in AndReveal
    /\ \E t \in 1..Len(board.tableau_piles) :
           /\ t = last_move.source_tableau_index + 1
           /\ Len(board.tableau_piles[t].cards) = 1
           /\ Len(board.tableau_piles[t].face_down_cards) > 0
    /\ \E t \in 1..Len(board.tableau_piles) :
           /\ board.tableau_piles[t].cards = <<>>
           /\ board.tableau_piles[t].face_down_cards = <<>>

\* stock ++ reverse(waste): the cards still to come, last one first, before
\* the cards drawn, in the order a reset puts them back
DrawingOrder(b) == b.stock \o Reverse(b.waste)

\* C28: DrawFromStock and ResetStock both preserve the sequence
\* stock ++ reverse(waste); so from a board with stock s and empty waste,
\* |s| draws followed by one reset, with no other move in between, restore
\* exactly stock s and an empty waste, and the fingerprint is the one before
\* the first draw.
C28_DrawResetRoundTrip ==
    twin # NewBoard /\ ~raised =>
        /\ twin.waste = <<>>
        /\ DrawingOrder(board) = DrawingOrder(twin)
        /\ board.move_count <= Len(twin.stock) =>
               /\ Len(board.waste) = board.move_count
               /\ Len(board.stock) = Len(twin.stock) - board.move_count
        /\ last_move = ResetStock /\ board.move_count = Len(twin.stock) + 1 =>
               /\ board.stock = twin.stock
               /\ board.waste = <<>>
               /\ get_state_hash(board) = get_state_hash(twin)
               /\ Piles(board) = Piles(twin)

\* the whole stock was drawn and one reset has put it back
C28_Witness ==
    /\ twin # NewBoard
    /\ ~raised
    /\ Len(twin.stock) > 2
    /\ last_move = ResetStock
    /\ board.move_count = Len(twin.stock) + 1
    /\ get_state_hash(board) = get_state_hash(twin)

\* the whole stock has been drawn: the waste is the stock in reverse
C28_WitnessDrawn ==
    /\ twin # NewBoard
    /\ ~raised
    /\ last_move = DrawFromStock
    /\ board.stock = <<>>
    /\ Len(board.waste) = 24
    /\ board.waste = Reverse(twin.stock)

-----------------------------------------------------------------------------
(* The acceptance predicates of the piles, asked of bounded pile contents *)

\* the cards that lie below the top card of a probed pile
BuriedCards == {Card(KING, "SPADES"), Card(2, "HEARTS")}

\* the sequences over a set of length n or less
RECURSIVE SeqsUpTo(_, _)
SeqsUpTo(S, n) ==
    IF n = 0
    THEN {<<>>}
    ELSE LET shorter == SeqsUpTo(S, n - 1) IN
         shorter \cup {Append(q, x) : q \in {q \in shorter : Len(q) = n - 1}, x \in S}

\* the probed pile contents: empty, or buried cards below any top card
PileContents ==
    {<<>>} \cup {Append(q, c) : q \in SeqsUpTo(BuriedCards, MaxPileLen - 1), c \in AllCards}

\* a pile of one kind, its contents, and a card offered to it
Probe(kind, suit, face_down_cards, cards, card) ==
    [kind |-> kind, suit |-> suit, face_down_cards |-> face_down_cards,
     cards |-> cards, card |-> card, answered |-> FALSE, accepted |-> FALSE]

InitPiles ==
    /\ board = NewBoard
    /\ last_move = NoMove
    /\ raised = FALSE
    /\ game = NoGame
    /\ twin = NewBoard
    /\ prepared_by = ByInit
    /\ \/ \E kind \in {"Stock", "Waste"}, cards \in PileContents, card \in AllCards :
              probe = Probe(kind, "None", <<>>, cards, card)
       \/ \E s \in 1..Len(Suit), cards \in PileContents, card \in AllCards :
              probe = Probe("Foundation", Suit[s], <<>>, cards, card)
       \/ \E face_down_cards \in SeqsUpTo(BuriedCards, 1),
              cards \in PileContents, card \in AllCards :
              probe = Probe("Tableau", "None", face_down_cards, cards, card)

\* the answer of can_add_card is recorded
Answered(accepted) == [probe EXCEPT !.answered = TRUE, !.accepted = accepted]

\* Stock.can_add_card(card)
AskStock ==
    /\ probe.kind = "Stock"
    /\ ~probe.answered
    /\ probe' = Answered(Stock_can_add_card(probe.cards, probe.card))
    /\ UNCHANGED <<board, last_move, raised, game, twin, prepared_by>>

\* Waste.can_add_card(card)
AskWaste ==
    /\ probe.kind = "Waste"
    /\ ~probe.answered
    /\ probe' = Answered(Waste_can_add_card(probe.cards, probe.card))
    /\ UNCHANGED <<board, last_move, raised, game, twin, prepared_by>>

\* Foundation(suit).can_add_card(card)
AskFoundation ==
    /\ probe.kind = "Foundation"
    /\ ~probe.answered
    /\ probe' = Answered(Foundation_can_add_card(
                             [suit |-> probe.suit, cards |-> probe.cards], probe.card))
    /\ UNCHANGED <<board, last_move, raised, game, twin, prepared_by>>

\* Tableau(face_down_cards, face_up_cards).can_add_card(card)
AskTableau ==
    /\ probe.kind = "Tableau"
    /\ ~probe.answered
    /\ probe' = Answered(Tableau_can_add_card(
                             Tableau(probe.face_down_cards, probe.cards), probe.card))
    /\ UNCHANGED <<board, last_move, raised, game, twin, prepared_by>>

NextPiles ==
    \/ AskStock
    \/ AskWaste
    \/ AskFoundation
    \/ AskTableau

SpecPiles == InitPiles /\ [][NextPiles]_vars

\* the two-valued color of a suit
IsRed(suit) == suit \in {"HEARTS", "DIAMONDS"}

\* C6: for every card C and every pile content, a Foundation of suit S
\* accepts C iff C's suit is S and either the pile is empty and C has rank 1
\* or the top card has rank C.rank - 1; a Tableau accepts C iff either it
\* has no face-up card and C has rank 13, or its top face-up card has the
\* other color and rank C.rank + 1; a Stock accepts nothing and a Waste
\* accepts everything.
C6_PileAcceptance ==
    probe.answered =>
        LET C == probe.card
            n == Len(probe.cards)
        IN CASE probe.kind = "Foundation" ->
                    probe.accepted <=>
                        /\ C.suit = probe.suit
                        /\ \/ n = 0 /\ C.rank = 1
                           \/ n > 0 /\ probe.cards[n].rank = C.rank - 1
             [] probe.kind = "Tableau" ->
                    probe.accepted <=>
                        \/ n = 0 /\ C.rank = 13
                        \/ /\ n > 0
                           /\ IsRed(probe.cards[n].suit) # IsRed(C.suit)
                           /\ probe.cards[n].rank = C.rank + 1
             [] probe.kind = "Stock" -> ~probe.accepted
             [] probe.kind = "Waste" -> probe.accepted

\* C6 witness: a tableau with a hidden card and two face-up cards has been
\* asked and has accepted the card offered.
C6_Witness ==
    /\ probe.kind = "Tableau"
    /\ probe.answered
    /\ probe.accepted
    /\ Len(probe.cards) >= 2
    /\ Len(probe.face_down_cards) = 1

====
